---- MODULE Spec2Model ----
(***************************************************************************)
(* A model of GPTbuilderauto: the sandboxed code executor                  *)
(* (gptbuilderauto/executor/code_executor.py), the filesystem deployer     *)
(* (gptbuilderauto/deployer/deployer.py), the maintenance monitor          *)
(* (gptbuilderauto/monitor/maintenance.py), the code generator             *)
(* (gptbuilderauto/core/code_generator.py) and the autonomous workflow     *)
(* (examples/autonomous_workflow.py, the auto command of cli.py).          *)
(*                                                                         *)
(* Every public method is one action: the method runs to its end (a return *)
(* or a raised exception) inside the action.  What the operating system,   *)
(* the child process, the container runtime and the filesystem do during   *)
(* the call is an input of the action, drawn from a small set.             *)
(*                                                                         *)
(* Texts are sequences of tokens, so that "the text mentions a word" and   *)
(* "the name ends with the timestamp" are things the model can decide.     *)
(***************************************************************************)
EXTENDS Integers, Sequences, FiniteSets, TLC

VARIABLES
    timeout,            \* CodeExecutor.timeout
    use_docker,         \* CodeExecutor.use_docker
    docker_client,      \* CodeExecutor.docker_client is not None
    enable_sandboxing,  \* CodeExecutor.enable_sandboxing
    tmp,                \* temporary files and directories that exist on disk
    execCalls,          \* number of execute calls made so far
    now,                \* the wall clock, in seconds since midnight
    ticks,              \* number of times the clock has advanced
    fs,                 \* Deployer.deploy_path: directory name -> its files
    git,                \* the version-control working tree of deploy_to_git
    deployCalls,        \* number of deploy calls made so far
    faults,             \* number of calls that met a filesystem or VCS error
    wrote,              \* the files the last deploy call wrote completely
    deployLog,          \* the successful deploy_code calls, in call order
    gone,               \* names deleted and not created again since
    deleteCalls,        \* number of delete_deployment calls made so far
    unmade,             \* names a delete_deployment call removed files of,
                        \* all or some, with no successful deploy since
    health_history,     \* MaintenanceMonitor.health_history
    checkCalls,         \* number of health_check calls made so far
    logCalls,           \* number of analyze_logs calls made so far
    client,             \* CodeGenerator.client is not None
    requests,           \* completion requests sent to the provider so far
    genCalls,           \* number of generator calls made so far
    workflow,           \* the run of the autonomous workflow: its position,
                        \* its local variables and the stages it has called
    cli,                \* the command line: the commands that have ended,
                        \* the last of them and its exit status
    threads,            \* the threads that call health_check: each one's
                        \* position and local variables, the calls begun,
                        \* the records returned per name, and whether two
                        \* calls have overlapped
    call,               \* the last call: its operation, arguments and inputs
    ret,                \* the value the last call returned (NoResult if none)
    raised              \* TRUE iff the last call ended by raising

vars == <<timeout, use_docker, docker_client, enable_sandboxing, tmp,
          execCalls, now, ticks, fs, git, deployCalls, faults, wrote,
          deployLog, gone, deleteCalls, unmade, health_history,
          checkCalls,
          logCalls, client, requests, genCalls, workflow, cli, threads,
          call, ret, raised>>

deployVars == <<now, ticks, fs, git, deployCalls, faults, wrote, deployLog,
                gone, deleteCalls, unmade>>

execVars == <<timeout, use_docker, docker_client, enable_sandboxing, tmp,
              execCalls>>

monVars == <<health_history, checkCalls, logCalls>>

genVars == <<client, requests, genCalls>>

\* the state of the components other than the executor and the deployer
otherVars == <<monVars, genVars>>

\* the callers of the components
runVars == <<workflow, cli, threads>>

(***************************************************************************)
(* Bounds                                                                  *)
(***************************************************************************)
MaxCalls == 3       \* execute calls in one behaviour
MaxDur == 3         \* longest running time of a child process, in seconds
MaxDeploys == 2     \* deploy_code and deploy_to_git calls in one behaviour
MaxFaults == 1      \* calls that meet a filesystem or VCS error
MaxTicks == 1       \* advances of the clock
MaxDeletes == 2     \* delete_deployment calls in one behaviour

Timeouts == {1, 2}                 \* values of the timeout argument
ExitCodes == {0, 1, -9}            \* exit statuses of a child process
ContainerExitCodes == {1, 137}     \* exit statuses a ContainerError carries
Codes == {"code1", "code2"}        \* code strings

NoCall == [op |-> "none"]
NoResult == [nothing |-> TRUE]

(***************************************************************************)
(* Texts                                                                   *)
(***************************************************************************)
Empty == << >>
Mentions(text, word) == \E i \in DOMAIN text : text[i] = word

ChildStdouts == {Empty, <<"Hello">>}
ChildStderrs == {Empty, <<"Traceback">>}

(***************************************************************************)
(* Language tables                                                         *)
(***************************************************************************)
Languages == {"python", "Python", "PYTHON", "javascript", "JavaScript",
              "java", "Java", "go", "GO", "rust", "Rust", "cobol", "py",
              "unknown", ""}

\* the language string is looked up as it was given
AsGiven(language) == language

\* str.lower() on the language strings of the model
Lower(language) ==
    CASE language \in {"Python", "PYTHON"} -> "python"
      [] language = "JavaScript" -> "javascript"
      [] language = "Java" -> "java"
      [] language = "GO" -> "go"
      [] language = "Rust" -> "rust"
      [] OTHER -> language

ExecutorGetExtension(language) ==
    LET l == Lower(language) IN
    CASE l = "python" -> "py"
      [] l = "javascript" -> "js"
      [] l = "java" -> "java"
      [] l = "go" -> "go"
      [] l = "rust" -> "rs"
      [] OTHER -> "txt"

(***************************************************************************)
(* CodeExecutor                                                            *)
(***************************************************************************)

\* What the system does during one _execute_locally call.
\*   create_fails  NamedTemporaryFile(...) raises: no file is created
\*   write_fails   f.write(code) raises: the file exists (delete=False)
\*   spawn_fails   subprocess.run raises something other than TimeoutExpired
\*   ran           the child runs for dur seconds and would exit with rc
\* unlink_fails: os.unlink(temp_file) raises OSError in the finally clause.
LocalEnvs ==
    {[kind |-> "create_fails"], [kind |-> "write_fails"]}
    \cup [kind : {"spawn_fails"}, unlink_fails : BOOLEAN]
    \cup [kind : {"ran"}, dur : 0..MaxDur, rc : ExitCodes,
          stdout : ChildStdouts, stderr : ChildStderrs,
          unlink_fails : BOOLEAN]

\* What the system does during one _execute_in_docker call.
\*   tmpdir_fails     tempfile.TemporaryDirectory() raises
\*   write_fails      code_file.write_text(code) raises
\*   ok               containers.run returns the container's output
\*   container_error  containers.run raises docker.errors.ContainerError e;
\*                    the runtime raises it only for a non-zero exit status.
\*                    has_stdout: e has an attribute named stdout
\*   other_error      containers.run raises any other exception
DockerEnvs ==
    {[kind |-> "tmpdir_fails"], [kind |-> "write_fails"],
     [kind |-> "other_error"]}
    \cup [kind : {"ok"}, output : ChildStdouts]
    \cup [kind : {"container_error"}, exit_status : ContainerExitCodes,
          has_stdout : BOOLEAN, stdout : ChildStdouts,
          stderr : ChildStderrs]

ExceptionText == <<"Exception">>

\* the timeout is not handed to subprocess.run
TimeoutNeverExpires(dur, t) == FALSE

\* subprocess.run(..., timeout=t) raises TimeoutExpired
TimeoutExpired(dur, t) == dur > t

\* success is not derived from the exit status
CompletedResultAlwaysSuccess(env) ==
    [stdout |-> env.stdout, stderr |-> env.stderr,
     return_code |-> env.rc, success |-> TRUE]

CompletedResult(env) ==
    [stdout |-> env.stdout, stderr |-> env.stderr,
     return_code |-> env.rc, success |-> (env.rc = 0)]

TimeoutResult(t) ==
    [stdout |-> Empty,
     stderr |-> <<"Execution", "timeout", "after", ToString(t), "seconds">>,
     return_code |-> -1, success |-> FALSE]

ExceptionResult ==
    [stdout |-> Empty, stderr |-> ExceptionText,
     return_code |-> -1, success |-> FALSE]

DockerSuccessResult(env) ==
    [stdout |-> env.output, stderr |-> Empty,
     return_code |-> 0, success |-> TRUE]

ContainerErrorResult(env) ==
    [stdout |-> env.stdout,
     stderr |-> IF env.stderr # Empty THEN env.stderr ELSE ExceptionText,
     return_code |-> env.exit_status, success |-> FALSE]

\* the temporary file of call number n
TempFile(n) == [id |-> n, kind |-> "file",
                suffix |-> ExecutorGetExtension("python")]

\* Does the temporary file of a local call exist when the call has ended?
LocalLeavesFile(env) ==
    \/ env.kind = "write_fails"
    \/ env.kind \in {"spawn_fails", "ran"} /\ env.unlink_fails

LocalRaises(env) == env.kind \in {"create_fails", "write_fails"}

LocalResult(env, t) ==
    CASE env.kind = "spawn_fails" -> ExceptionResult
      [] env.kind = "ran" ->
            IF TimeoutExpired(env.dur, t) THEN TimeoutResult(t)
            ELSE CompletedResult(env)
      [] OTHER -> NoResult

ExecuteLocally(code, env) ==
    /\ tmp' = IF LocalLeavesFile(env) THEN tmp \cup {TempFile(execCalls + 1)}
              ELSE tmp
    /\ raised' = LocalRaises(env)
    /\ ret' = LocalResult(env, timeout)
    /\ call' = [op |-> "execute", mode |-> "local", code |-> code,
                env |-> env]

DockerRaises(env) == env.kind = "container_error" /\ ~env.has_stdout

DockerResult(env) ==
    CASE env.kind = "ok" -> DockerSuccessResult(env)
      [] env.kind = "container_error" ->
            IF env.has_stdout THEN ContainerErrorResult(env) ELSE NoResult
      [] OTHER -> ExceptionResult

\* The TemporaryDirectory context manager removes the directory on every
\* way out of the with block.
ExecuteInDocker(code, env) ==
    /\ tmp' = tmp
    /\ raised' = DockerRaises(env)
    /\ ret' = DockerResult(env)
    /\ call' = [op |-> "execute", mode |-> "docker", code |-> code,
                env |-> env]

ExecutePython ==
    /\ execCalls < MaxCalls
    /\ execCalls' = execCalls + 1
    /\ \E code \in Codes :
          IF use_docker /\ docker_client
          THEN \E env \in DockerEnvs : ExecuteInDocker(code, env)
          ELSE \E env \in LocalEnvs : ExecuteLocally(code, env)
    /\ UNCHANGED <<timeout, use_docker, docker_client, enable_sandboxing>>
    /\ UNCHANGED deployVars
    /\ UNCHANGED otherVars
    /\ UNCHANGED runVars

\* CodeExecutor.__init__(timeout, use_docker, enable_sandboxing); reachable
\* says whether docker.from_env() succeeds.
ExecutorInit ==
    /\ timeout \in Timeouts
    /\ enable_sandboxing \in BOOLEAN
    /\ \E requested \in BOOLEAN, reachable \in BOOLEAN :
          /\ use_docker = (requested /\ reachable)
          /\ docker_client = (requested /\ reachable)
    /\ tmp = {}
    /\ execCalls = 0

(***************************************************************************)
(* Deployer: names, the clock and the files of a deployment                *)
(***************************************************************************)
\* The metadata argument: None, {} or a mapping with entries.
NoMetadata == [given |-> FALSE, pairs |-> {}]
EmptyMetadata == [given |-> TRUE, pairs |-> {}]
AuthorMetadata == [given |-> TRUE, pairs |-> {<<"author", "test">>}]

\* The arguments deploy_code is called with: one name in one language, the
\* same name with other code and metadata, the same name in another
\* language, and another name.
DeployRequests ==
    {[code |-> "code1", name |-> <<"a">>, language |-> "python",
      metadata |-> NoMetadata],
     [code |-> "code2", name |-> <<"a">>, language |-> "python",
      metadata |-> AuthorMetadata],
     [code |-> "code1", name |-> <<"a">>, language |-> "JavaScript",
      metadata |-> EmptyMetadata],
     [code |-> "code2", name |-> <<"a", "_", "0">>, language |-> "python",
      metadata |-> NoMetadata]}

\* The arguments deploy_to_git is called with.
GitRequests ==
    {[code |-> "code1", name |-> <<"a">>, language |-> "python"],
     [code |-> "code2", name |-> <<"a">>, language |-> "python"]}

\* the test "if metadata is not None:"
IsNotNone(metadata) == metadata.given

\* bool(metadata), the test of "if metadata:"
Truthy(metadata) == metadata.given /\ metadata.pairs # {}

DeployerGetExtension(language) ==
    LET l == Lower(language) IN
    CASE l = "python" -> "py"
      [] l = "javascript" -> "js"
      [] l = "java" -> "java"
      [] l = "go" -> "go"
      [] l = "rust" -> "rs"
      [] OTHER -> "txt"

\* a field of strftime written without its leading zero
NoPad(n) ==
    IF n < 10 THEN <<ToString(n)>>
    ELSE <<ToString(n \div 10), ToString(n % 10)>>

\* a two-digit field of strftime: %H, %M, %S
Pad2(n) == <<ToString(n \div 10), ToString(n % 10)>>

\* The clock counts the seconds since midnight of the first of these days.
Dates == <<"20261104", "20261105", "20261106", "20261107", "20261108">>
SecondsPerDay == 24 * 60 * 60
\* %Y%m%d
Strfdate(t) == <<Dates[(t \div SecondsPerDay) + 1]>>
ClockStart == 1 * 60 + 11          \* 00:01:11
ClockSteps == {590}                \* 00:01:11 + 590 s = 00:11:01

\* datetime.now().strftime("%Y%m%d_%H%M%S") at clock t
Strftime(t) ==
    Strfdate(t) \o <<"_">> \o Pad2((t % SecondsPerDay) \div 3600)
                \o Pad2((t % 3600) \div 60) \o Pad2(t % 60)

\* f"{name}_{timestamp}"
DeploymentName(name, t) == name \o <<"_">> \o Strftime(t)

MainFile(extension) == <<"main", extension>>
MetadataFile == <<"metadata", "json">>
ReadmeFile == <<"README", "md">>

\* what a file holds
Partial == [kind |-> "partial"]        \* a write that stopped part-way
CodeContent(code) == [kind |-> "text", text |-> code]
JsonDumps(metadata) == [kind |-> "json", pairs |-> metadata.pairs]
GenerateReadme(name, language, metadata, t) ==
    [kind |-> "readme", name |-> name, language |-> language, deployed |-> t,
     pairs |-> IF Truthy(metadata) THEN metadata.pairs ELSE {}]

EmptyDir == [f \in {} |-> Partial]
EmptyRoot == [d \in {} |-> EmptyDir]

DirOf(root, d) == IF d \in DOMAIN root THEN root[d] ELSE EmptyDir

\* Path.write_text(content) into directory dir.  outcome:
\*   ok           the file holds content
\*   open_fails   the file is as it was
\*   write_fails  the file was truncated and holds part of content
WriteText(dir, file, content, outcome) ==
    IF outcome = "open_fails" THEN dir
    ELSE [f \in DOMAIN dir \cup {file} |->
            IF f = file
            THEN (IF outcome = "ok" THEN content ELSE Partial)
            ELSE dir[f]]

\* the root with directory d holding dir
WithDir(root, d, dir) ==
    [x \in DOMAIN root \cup {d} |-> IF x = d THEN dir ELSE root[x]]

WithoutDir(root, d) == [x \in DOMAIN root \ {d} |-> root[x]]

\* self.deploy_path / "" is deploy_path itself
RootName == Empty

DirPath(d) == <<"deploy_path", d>>
FilePath(d, file) == <<"deploy_path", d, file>>
PathExists(root, path) ==
    /\ path[2] \in DOMAIN root
    /\ Len(path) = 3 => path[3] \in DOMAIN root[path[2]]

(***************************************************************************)
(* Deployer.deploy_code                                                    *)
(***************************************************************************)
\* The steps of deploy_code that touch the filesystem, in program order, and
\* the fault a call meets: the step that raises (none: no step does) and,
\* for a write, whether it stopped part-way.
DeploySteps == <<"mkdir", "main", "metadata", "readme">>
NoFault == [step |-> "none", partial |-> FALSE]
DeployFaults ==
    {NoFault, [step |-> "mkdir", partial |-> FALSE]}
    \cup [step : {"main", "metadata", "readme"}, partial : BOOLEAN]

StepIndex(steps, step) == CHOOSE i \in DOMAIN steps : steps[i] = step
\* the step is started
Reaches(steps, fault, step) ==
    fault.step = "none" \/ StepIndex(steps, step) <= StepIndex(steps, fault.step)
\* the step is started and does not raise
Completes(steps, fault, step) ==
    fault.step = "none" \/ StepIndex(steps, step) < StepIndex(steps, fault.step)
Outcome(fault, step) ==
    IF fault.step # step THEN "ok"
    ELSE IF fault.partial THEN "write_fails" ELSE "open_fails"

ErrorText(fault) == <<"OSError", fault.step>>

\* the deployment directory when deploy_code has ended
DeployedDir(dir, extension, code, name, language, metadata, fault, t) ==
    LET d1 == IF Reaches(DeploySteps, fault, "main")
              THEN WriteText(dir, MainFile(extension), CodeContent(code),
                             Outcome(fault, "main"))
              ELSE dir
        d2 == IF Truthy(metadata) /\ Reaches(DeploySteps, fault, "metadata")
              THEN WriteText(d1, MetadataFile, JsonDumps(metadata),
                             Outcome(fault, "metadata"))
              ELSE d1
        d3 == IF Reaches(DeploySteps, fault, "readme")
              THEN WriteText(d2, ReadmeFile,
                             GenerateReadme(name, language, metadata, t),
                             Outcome(fault, "readme"))
              ELSE d2
    IN  d3

\* the except handler of deploy_code and deploy_to_git logs and returns; it
\* leaves the disk as the failing step left it
KeepFiles(before, after) == after

\* the step of deploy_code that writes the file
StepOf(file) ==
    IF file = MetadataFile THEN "metadata"
    ELSE IF file = ReadmeFile THEN "readme" ELSE "main"

\* the files deploy_code wrote to their end
DeployWrote(extension, metadata, fault) ==
    {file \in {MainFile(extension), MetadataFile, ReadmeFile} :
        /\ Completes(DeploySteps, fault, StepOf(file))
        /\ file = MetadataFile => Truthy(metadata)}

DeploySuccess(d, extension) ==
    [deployment_name |-> d, deployment_path |-> DirPath(d),
     code_file |-> FilePath(d, MainFile(extension)), success |-> TRUE]

DeployFailure(d, fault) ==
    [deployment_name |-> d, error |-> ErrorText(fault), success |-> FALSE]

DeployCode(code, name, language, metadata, fault) ==
    LET deployment_name == DeploymentName(name, now)
        extension == DeployerGetExtension(language)
        made == WithDir(fs, deployment_name,
                        DeployedDir(DirOf(fs, deployment_name), extension,
                                    code, name, language, metadata, fault,
                                    now))
    IN  /\ deployCalls < MaxDeploys
        /\ fault.step # "none" => faults < MaxFaults
        /\ fault.step = "metadata" => Truthy(metadata)
        /\ deployCalls' = deployCalls + 1
        /\ faults' = IF fault.step = "none" THEN faults ELSE faults + 1
        /\ fs' = IF fault.step = "mkdir" THEN fs
                 ELSE IF fault.step = "none" THEN made
                 ELSE KeepFiles(fs, made)
        /\ wrote' = DeployWrote(extension, metadata, fault)
        /\ ret' = IF fault.step = "none"
                  THEN DeploySuccess(deployment_name, extension)
                  ELSE DeployFailure(deployment_name, fault)
        /\ raised' = FALSE
        /\ deployLog' = IF fault.step = "none"
                        THEN Append(deployLog,
                                    [name |-> name, language |-> language,
                                     time |-> now,
                                     dir |-> deployment_name])
                        ELSE deployLog
        /\ gone' = IF fault.step = "mkdir" THEN gone
                   ELSE gone \ {deployment_name, RootName}
        /\ unmade' = IF fault.step = "none"
                     THEN unmade \ {deployment_name}
                     ELSE unmade
        /\ call' = [op |-> "deploy", code |-> code, name |-> name,
                    language |-> language, metadata |-> metadata,
                    fault |-> fault, time |-> now]
        /\ UNCHANGED <<now, ticks, git, deleteCalls>>
        /\ UNCHANGED execVars
        /\ UNCHANGED otherVars

(***************************************************************************)
(* Deployer.deploy_to_git                                                  *)
(***************************************************************************)
\* The steps of deploy_to_git that can raise: git.Repo(repo_path),
\* file_path.write_text, repo.index.add, repo.index.commit, origin.push.
GitSteps == <<"repo", "write", "add", "commit", "push">>
GitFaults ==
    {NoFault, [step |-> "write", partial |-> TRUE]}
    \cup [step : {"repo", "write", "add", "commit", "push"},
          partial : {FALSE}]

GitFile(name, extension) == <<name, extension>>

GitSuccess(name, extension) ==
    [deployment_name |-> name, repo_path |-> "repo_path",
     file_path |-> <<"repo_path", GitFile(name, extension)>>,
     branch |-> "main", success |-> TRUE]

\* has_remote: repo.remotes is not empty.
\* push_rejected: the remote refuses the push.  origin.push(branch) reports a
\* refused head in the list it returns, with an error flag, and does not
\* raise; deploy_to_git discards that list.
DeployToGit(code, name, language, has_remote, push_rejected, fault) ==
    LET extension == DeployerGetExtension(language)
        file == GitFile(name, extension)
        written == IF Reaches(GitSteps, fault, "write")
                   THEN WriteText(git.tree, file, CodeContent(code),
                                  Outcome(fault, "write"))
                   ELSE git.tree
        committed == Completes(GitSteps, fault, "commit")
        pushed == /\ has_remote
                  /\ Completes(GitSteps, fault, "push")
                  /\ ~push_rejected
        failed == fault.step # "none" \/ push_rejected
    IN  /\ deployCalls < MaxDeploys
        /\ failed => faults < MaxFaults
        /\ fault.step = "push" => has_remote
        /\ push_rejected => has_remote /\ fault.step = "none"
        /\ deployCalls' = deployCalls + 1
        /\ faults' = IF failed THEN faults + 1 ELSE faults
        /\ git' = [tree |-> IF fault.step = "none" THEN written
                            ELSE KeepFiles(git.tree, written),
                   commits |-> git.commits + (IF committed THEN 1 ELSE 0),
                   pushes |-> git.pushes + (IF pushed THEN 1 ELSE 0)]
        /\ wrote' = IF Completes(GitSteps, fault, "write") THEN {file}
                    ELSE {}
        /\ ret' = IF fault.step = "none" THEN GitSuccess(name, extension)
                  ELSE DeployFailure(name, fault)
        /\ raised' = FALSE
        /\ call' = [op |-> "deploy_to_git", code |-> code, name |-> name,
                    language |-> language, has_remote |-> has_remote,
                    push_rejected |-> push_rejected, fault |-> fault]
        /\ UNCHANGED <<now, ticks, fs, deployLog, gone, deleteCalls,
                       unmade>>
        /\ UNCHANGED execVars
        /\ UNCHANGED otherVars

(***************************************************************************)
(* Deployer.list_deployments and Deployer.delete_deployment                *)
(***************************************************************************)
\* json.loads raises on the text a part-way write left
Unreadable(root, d) ==
    /\ MetadataFile \in DOMAIN root[d]
    /\ root[d][MetadataFile].kind # "json"

DeploymentRecord(root, d) ==
    [name |-> d, path |-> DirPath(d),
     metadata |-> IF MetadataFile \in DOMAIN root[d]
                  THEN root[d][MetadataFile].pairs ELSE {}]

\* The sets of directories a list_deployments call can report.  iterdir
\* yields the directories in no particular order, and the first unreadable
\* metadata.json ends the loop: the directories visited before it are
\* reported.  (The created field of a record is left out.)
Listings(root) ==
    LET readable == {d \in DOMAIN root : ~Unreadable(root, d)}
    IN  IF readable = DOMAIN root THEN {readable} ELSE SUBSET readable

ListDeployments ==
    /\ \E listed \in Listings(fs) :
          ret' = [records |-> {DeploymentRecord(fs, d) : d \in listed}]
    /\ raised' = FALSE
    /\ call' = [op |-> "list"]
    /\ UNCHANGED deployVars
    /\ UNCHANGED execVars
    /\ UNCHANGED otherVars

\* the names delete_deployment is called with
Nonexistent == <<"n", "o", "n", "e", "x", "i", "s", "t", "e", "n", "t">>
DeleteNames == DOMAIN fs \cup gone \cup {Nonexistent}

\* shutil.rmtree reports success without removing anything
RmtreeKeeps(root, d) == root

\* shutil.rmtree(deployment_dir) that does not raise
Rmtree(root, d) == WithoutDir(root, d)

\* rmtree_fails: shutil.rmtree raises; left: the files it had not removed
\* (of deploy_path itself: the directories it had not removed)
DeleteDeployment(deployment_name, rmtree_fails, left) ==
    LET at_root == deployment_name = RootName
        exists == IF at_root THEN RootName \notin gone
                  ELSE deployment_name \in DOMAIN fs
    IN  /\ deleteCalls < MaxDeletes
        /\ deleteCalls' = deleteCalls + 1
        /\ rmtree_fails => exists /\ faults < MaxFaults
        /\ faults' = IF rmtree_fails THEN faults + 1 ELSE faults
        /\ left \subseteq (IF at_root THEN DOMAIN fs
                           ELSE DOMAIN DirOf(fs, deployment_name))
        /\ ~rmtree_fails => left = {}
        /\ fs' = IF ~exists THEN fs
                 ELSE IF at_root THEN [d \in left |-> fs[d]]
                 ELSE IF rmtree_fails
                 THEN WithDir(fs, deployment_name,
                              [f \in left |-> fs[deployment_name][f]])
                 ELSE Rmtree(fs, deployment_name)
        /\ ret' = [value |-> exists /\ ~rmtree_fails]
        /\ raised' = FALSE
        /\ gone' = IF ~exists THEN gone
                   ELSE IF at_root
                   THEN gone \cup (DOMAIN fs \ left)
                             \cup (IF rmtree_fails THEN {} ELSE {RootName})
                   ELSE IF rmtree_fails THEN gone
                   ELSE gone \cup {deployment_name}
        /\ unmade' = IF ~exists THEN unmade
                     ELSE IF at_root THEN unmade \cup DOMAIN fs
                     ELSE unmade \cup {deployment_name}
        /\ call' = [op |-> "delete", deployment_name |-> deployment_name,
                    existed |-> exists, rmtree_fails |-> rmtree_fails]
        /\ UNCHANGED <<now, ticks, git, deployCalls, wrote, deployLog>>
        /\ UNCHANGED execVars
        /\ UNCHANGED otherVars

\* time passes
Tick ==
    /\ ticks < MaxTicks
    /\ \E step \in ClockSteps :
          /\ now + step < SecondsPerDay
          /\ now' = now + step
    /\ ticks' = ticks + 1
    /\ UNCHANGED <<fs, git, deployCalls, faults, wrote, deployLog, gone,
                   deleteCalls, unmade, call, ret, raised>>
    /\ UNCHANGED execVars
    /\ UNCHANGED otherVars
    /\ UNCHANGED runVars

\* Deployer.__init__ on an empty deploy_path
DeployerInit ==
    /\ now = ClockStart
    /\ ticks = 0
    /\ fs = EmptyRoot
    /\ git = [tree |-> EmptyDir, commits |-> 0, pushes |-> 0]
    /\ deployCalls = 0
    /\ faults = 0
    /\ wrote = {}
    /\ deployLog = << >>
    /\ gone = {}
    /\ deleteCalls = 0
    /\ unmade = {}

(***************************************************************************)
(* MaintenanceMonitor                                                      *)
(***************************************************************************)
\* source text that python3 -m py_compile rejects
InvalidCode == "def invalid syntax here"
\* code between the two lines of three backquotes of a Markdown code block
FencedCode == "(fence)python code1 (fence)"

\* datetime.isoformat() of the clock, and datetime.fromisoformat of its text
Isoformat(t) == <<"iso", t>>
Fromisoformat(text) == text[2]

\* a path that is no directory
NonexistentPath == <<"nonexistent", <<"path">>>>

\* A second directory tree, outside deploy_path, that holds a directory with
\* the name of a deployment, with Python code that does not compile, and a
\* directory of another name.
ArchiveRoot ==
    [d \in {DeploymentName(<<"a">>, ClockStart),
            DeploymentName(<<"b">>, ClockStart)} |->
        [file \in {MainFile("py")} |->
            IF d = DeploymentName(<<"a">>, ClockStart)
            THEN CodeContent(InvalidCode) ELSE CodeContent("code1")]]

ArchivePath(d) == <<"archive", d>>

\* the directory tree a path leads into
RootAt(root, path) == IF path[1] = "archive" THEN ArchiveRoot ELSE root

\* Path(deployment_path).exists()
Exists(root, path) ==
    /\ path[1] \in {"deploy_path", "archive"}
    /\ path[2] \in DOMAIN RootAt(root, path)

\* the history is kept under the whole path
WholePath(path) == path

\* Path(deployment_path).name
BaseName(path) == path[Len(path)]

\* the pattern matches no file
GlobNothing(dir) == {}

\* deployment_path.glob("main.*")
GlobMain(dir) == {file \in DOMAIN dir : file[1] = "main"}

\* main_file.suffix
Suffix(file) == file[2]

\* main_file.stat().st_size, in units: a text cut part-way is shorter
FileSize(content) == IF content.kind = "partial" THEN 1 ELSE 2

\* What the system does during one health_check call.
\*   plain         nothing fails; a text cut part-way does not compile
\*   stat_fails    main_file.stat() raises
\*   run_fails     subprocess.run of the compile check raises (no python3 on
\*                 the path, or the 10 seconds pass)
\*   cut_compiles  a text cut part-way happens to compile
HealthEnvs == {"plain", "stat_fails", "run_fails", "cut_compiles"}

\* the exit status of python3 -m py_compile is 0
PyCompile(content, env) ==
    IF content.kind = "partial" THEN env = "cut_compiles"
    ELSE content.text \notin {InvalidCode, FencedCode}

\* the compile check is skipped
SyntaxUnchecked(content, env) == TRUE

\* MaintenanceMonitor._check_python_syntax
CheckPythonSyntax(content, env) ==
    env # "run_fails" /\ PyCompile(content, env)

ErrorRecord(message, t) ==
    [status |-> "error", message |-> message, timestamp |-> Isoformat(t)]

HealthStatus(path, file, content, syntax_ok, t) ==
    [status |-> IF syntax_ok THEN "healthy" ELSE "warning",
     deployment_path |-> path,
     main_file |-> path \o <<file>>,
     file_size |-> FileSize(content),
     syntax_valid |-> syntax_ok,
     timestamp |-> Isoformat(t)]

NoHistory == [name \in {} |-> << >>]

\* the record takes the place of the sequence
Replaced(history, name, record) ==
    [n \in DOMAIN history \cup {name} |->
        IF n = name THEN <<record>> ELSE history[n]]

\* self.health_history[deployment_name].append(health_status), after the
\* sequence of a new name was created empty
Appended(history, name, record) ==
    [n \in DOMAIN history \cup {name} |->
        IF n = name
        THEN Append(IF name \in DOMAIN history THEN history[name] ELSE << >>,
                    record)
        ELSE history[n]]

NoFile == <<"none", "none">>

\* the main.* files glob can list first
FirstMatches(root, path) ==
    IF Exists(root, path) /\ GlobMain(RootAt(root, path)[path[2]]) # {}
    THEN GlobMain(RootAt(root, path)[path[2]]) ELSE {NoFile}

\* MaintenanceMonitor.health_check.  main_file: main_files[0], the match
\* that glob lists first (NoFile when there is none).
HealthCheck(deployment_path, main_file, env) ==
    LET exists == Exists(fs, deployment_path)
        dir == IF exists THEN RootAt(fs, deployment_path)[deployment_path[2]]
               ELSE EmptyDir
        found == main_file # NoFile
        content == IF found THEN dir[main_file] ELSE Partial
        syntax_ok == IF Suffix(main_file) = "py"
                     THEN CheckPythonSyntax(content, env)
                     ELSE TRUE
        health_status == HealthStatus(deployment_path, main_file, content,
                                      syntax_ok, now)
        stored == found /\ env # "stat_fails"
    IN  /\ main_file \in FirstMatches(fs, deployment_path)
        /\ env # "plain" => found
        /\ env \in {"run_fails", "cut_compiles"} => Suffix(main_file) = "py"
        /\ env = "cut_compiles" => content.kind = "partial"
        /\ checkCalls' = checkCalls + 1
        /\ health_history' =
              IF stored
              THEN Appended(health_history, BaseName(deployment_path),
                            health_status)
              ELSE health_history
        /\ ret' = IF ~exists THEN ErrorRecord("Deployment not found", now)
                  ELSE IF ~found THEN ErrorRecord("Main file not found", now)
                  ELSE IF env = "stat_fails" THEN ErrorRecord("OSError", now)
                  ELSE health_status
        /\ raised' = FALSE
        /\ call' = [op |-> "health_check",
                    deployment_path |-> deployment_path,
                    main_file |-> main_file, env |-> env,
                    existed |-> exists]
        /\ UNCHANGED <<logCalls, genVars>>
        /\ UNCHANGED deployVars
        /\ UNCHANGED execVars

SecondsPerHour == 60 * 60

\* every record is taken, whatever its age
AnyAge(record_time, t, hours) == TRUE

\* record_time >= datetime.now() - timedelta(hours=hours)
InWindow(record_time, t, hours) == record_time >= t - hours * SecondsPerHour

\* the records get_health_history returns
HealthHistory(history, deployment_name, hours, t) ==
    IF deployment_name \notin DOMAIN history THEN << >>
    ELSE SelectSeq(history[deployment_name],
                   LAMBDA record :
                       InWindow(Fromisoformat(record.timestamp), t, hours))

\* MaintenanceMonitor.get_health_history
GetHealthHistory(deployment_name, hours) ==
    /\ ret' = [history |-> HealthHistory(health_history, deployment_name,
                                         hours, now)]
    /\ raised' = FALSE
    /\ call' = [op |-> "get_health_history",
                deployment_name |-> deployment_name, hours |-> hours]
    /\ UNCHANGED <<monVars, genVars>>
    /\ UNCHANGED deployVars
    /\ UNCHANGED execVars

\* sum(1 for h in history if h.get("status") == status)
CountStatus(history, status) ==
    Len(SelectSeq(history, LAMBDA h : h.status = status))

\* f"{count/len(history)*100:.1f}", in tenths of a percent
Percent(count, total) == (count * 2000 + total) \div (2 * total)

\* the whole sequence, whatever n is
Uncut(seq, n) == seq

\* seq[-n:]
LastN(seq, n) ==
    IF Len(seq) <= n THEN seq ELSE SubSeq(seq, Len(seq) - n + 1, Len(seq))

\* a line of the "Recent Issues" section
IssueLine(issue) ==
    [timestamp |-> issue.timestamp, status |-> issue.status,
     message |-> IF "message" \in DOMAIN issue THEN issue.message
                 ELSE "No details"]

\* the text generate_report returns
Report(history, deployment_name) ==
    IF history = << >>
    THEN [text |-> "No health history available",
          deployment_name |-> deployment_name]
    ELSE LET total == Len(history)
             healthy_count == CountStatus(history, "healthy")
             warning_count == CountStatus(history, "warning")
             error_count == CountStatus(history, "error")
             recent_issues ==
                 LastN(SelectSeq(history, LAMBDA h : h.status # "healthy"), 5)
         IN  [text |-> "Maintenance Report",
              deployment_name |-> deployment_name,
              total |-> total,
              healthy |-> healthy_count,
              healthy_percent |-> Percent(healthy_count, total),
              warnings |-> warning_count,
              warnings_percent |-> Percent(warning_count, total),
              errors |-> error_count,
              errors_percent |-> Percent(error_count, total),
              issues |-> [i \in DOMAIN recent_issues |->
                             IssueLine(recent_issues[i])]]

\* MaintenanceMonitor.generate_report
GenerateReport(deployment_name) ==
    /\ ret' = Report(HealthHistory(health_history, deployment_name, 24, now),
                     deployment_name)
    /\ raised' = FALSE
    /\ call' = [op |-> "generate_report",
                deployment_name |-> deployment_name]
    /\ UNCHANGED <<monVars, genVars>>
    /\ UNCHANGED deployVars
    /\ UNCHANGED execVars

\* the fix empties what it was given
Wiped(state) == << >>

\* what auto_fix does to the history and to the deployment: nothing
Untouched(state) == state

\* MaintenanceMonitor.auto_fix
AutoFix(deployment_path, issue) ==
    /\ ret' = [status |-> "not_implemented",
               message |-> "Auto-fix functionality requires GPT integration",
               deployment_path |-> deployment_path, issue |-> issue,
               timestamp |-> Isoformat(now)]
    /\ raised' = FALSE
    /\ call' = [op |-> "auto_fix", deployment_path |-> deployment_path,
                issue |-> issue]
    /\ health_history' = Untouched(health_history)
    /\ fs' = Untouched(fs)
    /\ UNCHANGED <<checkCalls, logCalls, now, ticks, git, deployCalls,
                   faults, wrote, deployLog, gone, deleteCalls, unmade,
                   genVars>>
    /\ UNCHANGED execVars

(***************************************************************************)
(* MaintenanceMonitor.analyze_logs                                         *)
(***************************************************************************)
\* the word is compared as it is written
AsWritten(word) == word

\* The words of the log lines, and str.upper() on them.
Upper(word) ==
    CASE word = "error" -> "ERROR"
      [] word = "Warning:" -> "WARNING:"
      [] word = "warning" -> "WARNING"
      [] word = "started" -> "STARTED"
      [] word = "failed" -> "FAILED"
      [] word = "after" -> "AFTER"
      [] OTHER -> word

\* needle in word, for the words str.upper() returns
HasSubstring(word, needle) ==
    CASE needle = "ERROR" -> word \in {"ERROR", "ERROR:"}
      [] needle = "WARNING" -> word \in {"WARNING", "WARNING:"}
      [] OTHER -> FALSE

\* needle in line.upper()
InUpper(needle, line) ==
    \E i \in DOMAIN line : HasSubstring(Upper(line[i]), needle)

InfoLine == <<"INFO:", "started">>
ErrorLine == <<"ERROR:", "failed">>
LowerErrorLine == <<"error">>
WarningLine == <<"Warning:", "started">>
BothLine == <<"warning", "after", "error">>
LogLines == {InfoLine, ErrorLine, LowerErrorLine, WarningLine, BothLine}

Newline == "\n"

RECURSIVE Join(_)
\* "\n".join(lines)
Join(lines) ==
    IF lines = << >> THEN << >>
    ELSE IF Len(lines) = 1 THEN lines[1]
    ELSE lines[1] \o <<Newline>> \o Join(Tail(lines))

RECURSIVE Split(_)
\* content.split("\n")
Split(content) ==
    IF ~Mentions(content, Newline) THEN <<content>>
    ELSE LET i == CHOOSE k \in DOMAIN content :
                      /\ content[k] = Newline
                      /\ \A j \in 1..(k - 1) : content[j] # Newline
         IN  <<SubSeq(content, 1, i - 1)>>
                 \o Split(SubSeq(content, i + 1, Len(content)))

\* n copies of a line
Repeat(line, n) == [i \in 1..n |-> line]

MaxHead == 2        \* longest varied beginning of a log file
MaxLogCalls == 1    \* analyze_logs calls in one behaviour
Runs == {0, 9, 10, 11}

\* the log files: a short varied beginning, then a run of one line
LogFiles ==
    LET heads == UNION {[1..n -> LogLines] : n \in 0..MaxHead}
    IN  {Join(head \o Repeat(line, n)) :
            head \in heads, line \in LogLines, n \in Runs}

\* What the system does during one analyze_logs call: the file is missing,
\* read_text raises, or read_text returns the content.
LogEnvs == {"missing", "unreadable", "read"}

Analysis(content, t) ==
    LET lines == Split(content)
        errors == SelectSeq(lines, LAMBDA line : InUpper("ERROR", line))
        warnings == SelectSeq(lines, LAMBDA line : InUpper("WARNING", line))
    IN  [status |-> "success",
         total_lines |-> Len(lines),
         errors |-> Len(errors),
         warnings |-> Len(warnings),
         recent_errors |-> LastN(errors, 10),
         recent_warnings |-> LastN(warnings, 10),
         timestamp |-> Isoformat(t)]

\* MaintenanceMonitor.analyze_logs
AnalyzeLogs(content, env) ==
    /\ ret' = CASE env = "missing" ->
                     [status |-> "error", message |-> "Log file not found"]
                [] env = "unreadable" ->
                     [status |-> "error", message |-> "OSError"]
                [] OTHER -> Analysis(content, now)
    /\ raised' = FALSE
    /\ call' = [op |-> "analyze_logs", env |-> env,
                content |-> IF env = "read" THEN content ELSE << >>]
    /\ logCalls' = logCalls + 1
    /\ UNCHANGED <<health_history, checkCalls, genVars>>
    /\ UNCHANGED deployVars
    /\ UNCHANGED execVars

\* hours pass
Wait(hours) ==
    /\ now' = now + hours * SecondsPerHour
    /\ ticks' = ticks + 1
    /\ UNCHANGED <<fs, git, deployCalls, faults, wrote, deployLog, gone,
                   deleteCalls, unmade, call, ret, raised>>
    /\ UNCHANGED execVars
    /\ UNCHANGED otherVars
    /\ UNCHANGED runVars

\* MaintenanceMonitor.__init__
MonitorInit ==
    /\ health_history = NoHistory
    /\ checkCalls = 0
    /\ logCalls = 0

(***************************************************************************)
(* CodeGenerator                                                           *)
(***************************************************************************)
\* the api_key argument and the OPENAI_API_KEY variable: None, "" or a key
ApiKeys == {"None", "", "test-key"}

\* api_key or os.getenv("OPENAI_API_KEY")
OrElse(api_key, env_key) ==
    IF api_key \notin {"None", ""} THEN api_key ELSE env_key

\* bool(self.api_key)
HasKey(api_key) == api_key \notin {"None", ""}

\* The texts the completion provider answers with: code, code that does
\* not compile, and code in a Markdown code block.
Completions == {"code1", InvalidCode, FencedCode}

\* What the provider does with one request: it answers with a text and a
\* token count, or the request raises.
ProviderOutcomes ==
    {[kind |-> "raises"]}
    \cup [kind : {"answers"}, content : Completions, total_tokens : {100}]

\* response.choices[0].message.content, as it is
Verbatim(content) == content

NotConfigured ==
    [exception |-> "ValueError", message |-> "OpenAI API key not configured"]
UpstreamError == [exception |-> "Exception", message |-> "upstream"]

\* the request is sent again after a failure
Retried(outcome) == IF outcome.kind = "raises" THEN 2 ELSE 1

\* self.client.chat.completions.create is called once in the try block
Requested(outcome) == 1

GenerationResult(requirement, language, outcome) ==
    [code |-> Verbatim(outcome.content), language |-> language,
     requirement |-> requirement, model |-> "gpt-4",
     tokens_used |-> outcome.total_tokens]

\* the client is not looked at
AlwaysConfigured(c) == TRUE

\* the test "if not self.client: raise ValueError(...)" is passed
Configured(c) == c

\* The three methods of CodeGenerator: the test of self.client, one
\* request, and the answer returned or the exception raised again.
\* result: the value returned when the provider answers.
Complete(op, arguments, outcome, result) ==
    /\ genCalls' = genCalls + 1
    /\ requests' = IF Configured(client) THEN requests + Requested(outcome)
                   ELSE requests
    /\ raised' = (~Configured(client) \/ outcome.kind = "raises")
    /\ ret' = IF ~Configured(client) THEN NotConfigured
              ELSE IF outcome.kind = "raises" THEN UpstreamError
              ELSE result
    /\ call' = [op |-> op, arguments |-> arguments, outcome |-> outcome,
                configured |-> client]
    /\ UNCHANGED client

\* CodeGenerator.generate_code
GenerateCode(requirement, language, outcome) ==
    Complete("generate_code", <<requirement, language>>, outcome,
             IF outcome.kind = "answers"
             THEN GenerationResult(requirement, language, outcome)
             ELSE NoResult)

\* CodeGenerator.refine_code
RefineCode(code, feedback, language, outcome) ==
    Complete("refine_code", <<code, feedback, language>>, outcome,
             IF outcome.kind = "answers"
             THEN [text |-> Verbatim(outcome.content)] ELSE NoResult)

\* CodeGenerator.generate_tests
GenerateTests(code, language, outcome) ==
    Complete("generate_tests", <<code, language>>, outcome,
             IF outcome.kind = "answers"
             THEN [text |-> Verbatim(outcome.content)] ELSE NoResult)

\* no run of the workflow has begun
WorkflowInit == workflow = [pc |-> "idle", program |-> "none", code |-> "",
                            tokens_used |-> 0, exec_success |-> FALSE,
                            deployment_path |-> << >>, trace |-> << >>]

\* CodeGenerator.__init__(api_key): the client exists iff a key was given
\* or is in the environment
GeneratorInit ==
    /\ \E api_key \in ApiKeys, env_key \in ApiKeys :
          client = HasKey(OrElse(api_key, env_key))
    /\ requests = 0
    /\ genCalls = 0

\* no command has run
CliInit == cli = [commands |-> 0, command |-> "none", status |-> 0]

Threads == {1, 2}

\* no thread is inside health_check
Idle == [pc |-> "idle"]
ThreadsInit ==
    threads = [at |-> [t \in Threads |-> Idle], begun |-> 0,
               returned |-> [name \in {} |-> 0], overlapped |-> FALSE]

Init ==
    /\ ExecutorInit
    /\ DeployerInit
    /\ MonitorInit
    /\ GeneratorInit
    /\ WorkflowInit
    /\ CliInit
    /\ ThreadsInit
    /\ call = NoCall
    /\ ret = NoResult
    /\ raised = FALSE

NextExec == ExecutePython

SpecExec == Init /\ [][NextExec]_vars

\* CodeExecutor(timeout=1, use_docker=False), CodeGenerator("test-key")
InitDeploy ==
    /\ Init
    /\ timeout = 1
    /\ ~use_docker
    /\ enable_sandboxing
    /\ client

DeployCodeCall ==
    /\ \E request \in DeployRequests, fault \in DeployFaults :
           DeployCode(request.code, request.name, request.language,
                      request.metadata, fault)
    /\ UNCHANGED runVars

DeployToGitCall ==
    /\ \E request \in GitRequests, has_remote \in BOOLEAN,
          push_rejected \in BOOLEAN, fault \in GitFaults :
           DeployToGit(request.code, request.name, request.language,
                       has_remote, push_rejected, fault)
    /\ UNCHANGED runVars

ListDeploymentsCall == ListDeployments /\ UNCHANGED runVars

DeleteDeploymentCall ==
    /\ \E deployment_name \in DeleteNames, rmtree_fails \in BOOLEAN :
           \E left \in SUBSET DOMAIN DirOf(fs, deployment_name) :
               DeleteDeployment(deployment_name, rmtree_fails, left)
    /\ UNCHANGED runVars

NextDeploy ==
    \/ DeployCodeCall
    \/ DeployToGitCall
    \/ ListDeploymentsCall
    \/ DeleteDeploymentCall
    \/ Tick

SpecDeploy == InitDeploy /\ [][NextDeploy]_vars

(***************************************************************************)
(* The monitor on deployments made by the deployer                         *)
(***************************************************************************)
MaxChecks == 3      \* health_check calls in one behaviour of SpecMonitor
MaxWaits == 2       \* waits of WaitHours hours in one behaviour
MaxHistory == 6     \* health_check calls in one behaviour of SpecHistory
WaitHours == 13     \* hours one wait advances the clock

\* The deployments the monitor looks at: Python that compiles, Python that
\* does not, and code of a language that is not checked.
MonitorRequests ==
    {[code |-> "code1", name |-> <<"a">>, language |-> "python",
      metadata |-> NoMetadata],
     [code |-> InvalidCode, name |-> <<"a">>, language |-> "python",
      metadata |-> NoMetadata],
     [code |-> "code1", name |-> <<"a">>, language |-> "javascript",
      metadata |-> NoMetadata]}

\* deploys that leave a directory without main file or with part of one
MonitorFaults == {NoFault} \cup [step : {"main"}, partial : BOOLEAN]

MonitorPaths == {DirPath(d) : d \in DOMAIN fs} \cup {NonexistentPath}

HistoryNames ==
    DOMAIN fs \cup DOMAIN health_history \cup {BaseName(NonexistentPath)}

Hours == {12, 24}
Issues == {"syntax error"}

MonitorDeploy ==
    /\ \E request \in MonitorRequests, fault \in MonitorFaults :
           DeployCode(request.code, request.name, request.language,
                      request.metadata, fault)
    /\ UNCHANGED runVars

HealthCheckCall ==
    /\ checkCalls < MaxChecks
    /\ \E deployment_path \in MonitorPaths, env \in HealthEnvs :
          \E main_file \in FirstMatches(fs, deployment_path) :
              HealthCheck(deployment_path, main_file, env)
    /\ UNCHANGED runVars

GetHealthHistoryCall ==
    /\ \E deployment_name \in HistoryNames, hours \in Hours :
           GetHealthHistory(deployment_name, hours)
    /\ UNCHANGED runVars

GenerateReportCall ==
    /\ \E deployment_name \in HistoryNames : GenerateReport(deployment_name)
    /\ UNCHANGED runVars

AutoFixCall ==
    /\ \E deployment_path \in MonitorPaths, issue \in Issues :
           AutoFix(deployment_path, issue)
    /\ UNCHANGED runVars

WaitCall == ticks < MaxWaits /\ Wait(WaitHours)

NextMonitor ==
    \/ MonitorDeploy
    \/ HealthCheckCall
    \/ AutoFixCall
    \/ Tick

SpecMonitor == InitDeploy /\ [][NextMonitor]_vars

\* One deployment, checked many times while the compile check works or not.
HistoryDeploy ==
    /\ deployCalls = 0
    /\ DeployCode("code1", <<"a">>, "python", NoMetadata, NoFault)
    /\ UNCHANGED runVars

HealthCheckOften ==
    /\ checkCalls < MaxHistory
    /\ \E d \in DOMAIN fs, env \in {"plain", "run_fails"} :
          HealthCheck(DirPath(d), MainFile("py"), env)
    /\ UNCHANGED runVars

NextHistory ==
    \/ HistoryDeploy
    \/ HealthCheckOften
    \/ GetHealthHistoryCall
    \/ GenerateReportCall
    \/ WaitCall

SpecHistory == InitDeploy /\ [][NextHistory]_vars

AnalyzeLogsCall ==
    /\ logCalls < MaxLogCalls
    /\ \E content \in LogFiles, env \in LogEnvs : AnalyzeLogs(content, env)
    /\ UNCHANGED runVars

NextLogs == AnalyzeLogsCall

SpecLogs == InitDeploy /\ [][NextLogs]_vars

(***************************************************************************)
(* The generator and its completion provider                               *)
(***************************************************************************)
MaxGenCalls == 3    \* calls of the generator in one behaviour

Requirements == {"prime"}
Feedbacks == {"The code failed"}

GenerateCodeCall ==
    /\ genCalls < MaxGenCalls
    /\ \E requirement \in Requirements, language \in {"python", "go"},
          outcome \in ProviderOutcomes :
          GenerateCode(requirement, language, outcome)
    /\ UNCHANGED <<deployVars, execVars, monVars>>
    /\ UNCHANGED runVars

RefineCodeCall ==
    /\ genCalls < MaxGenCalls
    /\ \E code \in Completions, feedback \in Feedbacks,
          outcome \in ProviderOutcomes :
          RefineCode(code, feedback, "python", outcome)
    /\ UNCHANGED <<deployVars, execVars, monVars>>
    /\ UNCHANGED runVars

GenerateTestsCall ==
    /\ genCalls < MaxGenCalls
    /\ \E code \in Completions, outcome \in ProviderOutcomes :
          GenerateTests(code, "python", outcome)
    /\ UNCHANGED <<deployVars, execVars, monVars>>
    /\ UNCHANGED runVars

NextGen ==
    \/ GenerateCodeCall
    \/ RefineCodeCall
    \/ GenerateTestsCall

\* the executor as in InitDeploy, the generator with or without credential
InitGen ==
    /\ Init
    /\ timeout = 1
    /\ ~use_docker
    /\ enable_sandboxing

SpecGen == InitGen /\ [][NextGen]_vars

(***************************************************************************)
(* The autonomous workflow: examples/autonomous_workflow.py and the auto   *)
(* command of cli.py.  A run calls the components stage by stage; each     *)
(* stage is one step.                                                      *)
(***************************************************************************)
\* example: autonomous_workflow(requirement, app_name)
\* auto: the auto command with --execute; auto_no_execute: with --no-execute
Programs == {"example", "auto", "auto_no_execute"}

AppName == <<"prime_checker">>
Requirement == "prime"

\* str(True), str(False)
Str(b) == IF b THEN "True" ELSE "False"

\* the mapping with the success of the execution left out of account
UntestedMetadata(program, tokens_used, exec_success) ==
    [given |-> TRUE,
     pairs |-> {<<"requirement", Requirement>>,
                <<"tokens_used", ToString(tokens_used)>>}
               \cup (IF program = "example"
                     THEN {<<"execution_tested", Str(TRUE)>>,
                           <<"autonomous", Str(TRUE)>>}
                     ELSE {<<"auto_generated", Str(TRUE)>>})]

\* the metadata mapping the run hands to deploy_code
WorkflowMetadata(program, tokens_used, exec_success) ==
    [given |-> TRUE,
     pairs |-> {<<"requirement", Requirement>>,
                <<"tokens_used", ToString(tokens_used)>>}
               \cup (IF program = "example"
                     THEN {<<"execution_tested", Str(exec_success)>>,
                           <<"autonomous", Str(TRUE)>>}
                     ELSE {<<"auto_generated", Str(TRUE)>>})]

\* what the executor meets during a run
WorkflowLocalEnvs ==
    {[kind |-> "write_fails"],
     [kind |-> "ran", dur |-> 0, rc |-> 0, stdout |-> <<"Hello">>,
      stderr |-> Empty, unlink_fails |-> FALSE],
     [kind |-> "ran", dur |-> 0, rc |-> 1, stdout |-> Empty,
      stderr |-> <<"Traceback">>, unlink_fails |-> FALSE],
     [kind |-> "ran", dur |-> MaxDur, rc |-> 0, stdout |-> Empty,
      stderr |-> Empty, unlink_fails |-> FALSE]}

WorkflowDockerEnvs ==
    {[kind |-> "ok", output |-> <<"Hello">>],
     [kind |-> "other_error"]}
    \cup [kind : {"container_error"}, exit_status : {1},
          has_stdout : BOOLEAN, stdout : {Empty},
          stderr : {<<"Traceback">>}]

\* a stage the run has called: the code it worked on and how it ended
\* (ok, failed: it returned a failure value, raised)
Event(stage, code, outcome) ==
    [stage |-> stage, code |-> code, outcome |-> outcome]

Ended(success) ==
    IF raised' THEN "raised" ELSE IF success THEN "ok" ELSE "failed"

\* the except clause that ends the run
Finish(w, event) == [w EXCEPT !.pc = "done", !.trace = Append(@, event)]

\* every failed execution is refined
AfterAnyExecute(program, first, success) ==
    IF program = "example" /\ ~success THEN "refine" ELSE "deploy"

\* the stage after an execution: the example refines once, after a failed
\* first execution; the auto command never refines
AfterExecute(program, first, success) ==
    IF program = "example" /\ first /\ ~success THEN "refine" ELSE "deploy"

\* the exit status of the auto command: click.Abort() in the except clause,
\* which generate_code, execute_python and the read of
\* deploy_result["deployment_path"] after a failed deploy lead to
AutoStatus(trace) ==
    LET last == trace[Len(trace)]
    IN  IF \/ last.outcome = "raised"
           \/ last.stage = "deploy" /\ last.outcome = "failed"
        THEN 1 ELSE 0

\* a command has ended with the status
Exited(c, command, status) ==
    [commands |-> c.commands + 1, command |-> command, status |-> status]

\* a step of a run: the auto command exits when its run is done
RunStep ==
    /\ cli' = IF workflow'.pc = "done" /\ workflow'.program # "example"
              THEN Exited(cli, "auto", AutoStatus(workflow'.trace))
              ELSE cli
    /\ UNCHANGED threads

\* the run begins; the example returns at once when OPENAI_API_KEY is not set
WorkflowStart(program) ==
    /\ workflow.pc = "idle"
    /\ workflow' = [workflow EXCEPT
                       !.program = program,
                       !.pc = IF program = "example" /\ ~client
                              THEN "done" ELSE "generate"]
    /\ UNCHANGED <<deployVars, execVars, monVars, genVars, call, ret,
                   raised>>
    /\ RunStep

\* generator.generate_code(requirement, language)
WorkflowGenerate ==
    /\ workflow.pc = "generate"
    /\ \E outcome \in ProviderOutcomes :
          GenerateCode(Requirement, "python", outcome)
    /\ workflow' =
          IF raised'
          THEN Finish(workflow, Event("generate", "", "raised"))
          ELSE [workflow EXCEPT
                   !.code = ret'.code,
                   !.tokens_used = ret'.tokens_used,
                   !.pc = IF workflow.program = "auto_no_execute"
                          THEN "deploy" ELSE "execute",
                   !.trace = Append(@, Event("generate", ret'.code, "ok"))]
    /\ UNCHANGED <<deployVars, execVars, monVars>>
    /\ RunStep

\* executor.execute_python(code), the first time or after the refinement
WorkflowExecute ==
    /\ workflow.pc \in {"execute", "retry"}
    /\ execCalls' = execCalls + 1
    /\ IF use_docker /\ docker_client
       THEN \E env \in WorkflowDockerEnvs :
               ExecuteInDocker(workflow.code, env)
       ELSE \E env \in WorkflowLocalEnvs : ExecuteLocally(workflow.code, env)
    /\ workflow' =
          IF raised'
          THEN Finish(workflow, Event("execute", workflow.code, "raised"))
          ELSE [workflow EXCEPT
                   !.exec_success = ret'.success,
                   !.pc = AfterExecute(workflow.program,
                                       workflow.pc = "execute", ret'.success),
                   !.trace = Append(@, Event("execute", workflow.code,
                                             Ended(ret'.success)))]
    /\ UNCHANGED <<timeout, use_docker, docker_client, enable_sandboxing>>
    /\ UNCHANGED <<deployVars, monVars, genVars>>
    /\ RunStep

\* generator.refine_code(code, feedback)
WorkflowRefine ==
    /\ workflow.pc = "refine"
    /\ \E outcome \in ProviderOutcomes :
          RefineCode(workflow.code, "The code failed", "python", outcome)
    /\ workflow' =
          IF raised'
          THEN Finish(workflow, Event("refine", workflow.code, "raised"))
          ELSE [workflow EXCEPT
                   !.code = ret'.text,
                   !.pc = "retry",
                   !.trace = Append(@, Event("refine", ret'.text, "ok"))]
    /\ UNCHANGED <<deployVars, execVars, monVars>>
    /\ RunStep

\* deployer.deploy_code(code, name, language, metadata).  After a failed
\* deploy the example returns; the auto command goes on to read
\* deploy_result["deployment_path"], which is a KeyError that ends the run.
WorkflowDeploy ==
    /\ workflow.pc = "deploy"
    /\ \E fault \in DeployFaults :
          DeployCode(workflow.code, AppName, "python",
                     WorkflowMetadata(workflow.program, workflow.tokens_used,
                                      workflow.exec_success),
                     fault)
    /\ workflow' =
          [workflow EXCEPT
              !.pc = IF ret'.success THEN "monitor" ELSE "done",
              !.deployment_path = IF ret'.success THEN ret'.deployment_path
                                  ELSE << >>,
              !.trace = Append(@, Event("deploy", workflow.code,
                                        Ended(ret'.success)))]
    /\ RunStep

\* monitor.health_check(deployment_path)
WorkflowMonitor ==
    /\ workflow.pc = "monitor"
    /\ \E env \in HealthEnvs :
          \E main_file \in FirstMatches(fs, workflow.deployment_path) :
              HealthCheck(workflow.deployment_path, main_file, env)
    /\ workflow' = Finish(workflow,
                          Event("monitor", workflow.code,
                                Ended(ret'.status # "error")))
    /\ RunStep

WorkflowStartCall == \E program \in Programs : WorkflowStart(program)

NextWorkflow ==
    \/ WorkflowStartCall
    \/ WorkflowGenerate
    \/ WorkflowExecute
    \/ WorkflowRefine
    \/ WorkflowDeploy
    \/ WorkflowMonitor

\* CodeExecutor(use_docker=True): the container runtime is reachable or not;
\* the credential is set or not
InitWorkflow ==
    /\ Init
    /\ timeout = 1
    /\ enable_sandboxing

SpecWorkflow == InitWorkflow /\ [][NextWorkflow]_vars

(***************************************************************************)
(* Properties of the executor                                              *)
(***************************************************************************)
ResultFields == {"stdout", "stderr", "return_code", "success"}

Executed == call.op = "execute"

\* the child of a local call ran longer than the configured timeout
RanTooLong ==
    /\ Executed
    /\ call.mode = "local"
    /\ call.env.kind = "ran"
    /\ call.env.dur > timeout

\* an exception other than TimeoutExpired and ContainerError was caught
InternalFailure ==
    /\ Executed
    /\ \/ call.mode = "local" /\ call.env.kind = "spawn_fails"
       \/ call.mode = "docker"
            /\ call.env.kind \in {"tmpdir_fails", "write_fails", "other_error"}

\* C1: every result the executor returns, in local or container mode, has
\* success = (return_code = 0); a timeout and an internal failure return
\* return_code = -1 and success = FALSE.
C1_SuccessIffZeroExit ==
    (Executed /\ ~raised) =>
        /\ ret.success = (ret.return_code = 0)
        /\ (RanTooLong \/ InternalFailure) =>
                (ret.return_code = -1 /\ ret.success = FALSE)

C1_Witness ==
    /\ Executed /\ ~raised
    /\ call.mode = "local" /\ call.env.kind = "ran"
    /\ call.env.dur <= timeout /\ call.env.rc = 1
    /\ ret.return_code = 1 /\ ret.success = FALSE

\* C2: a local execution whose child runs longer than the timeout returns
\* (it does not raise) success = FALSE, return_code = -1, an empty stdout and
\* a stderr that mentions "timeout".
C2_TimeoutResult ==
    RanTooLong =>
        /\ ~raised
        /\ DOMAIN ret = ResultFields
        /\ ret.success = FALSE
        /\ ret.return_code = -1
        /\ ret.stdout = Empty
        /\ Mentions(ret.stderr, "timeout")

C2_Witness ==
    /\ RanTooLong
    /\ call.env.stdout # Empty
    /\ call.env.rc = 0
    /\ ret.return_code = -1

\* C3: after an execute call has ended, on every exit path, the temporary
\* file or directory made for it no longer exists.
C3_NoTemporaryArtifactLeft == Executed => tmp = {}

\* C4: an execute call never raises; whatever happens it returns a mapping
\* with exactly the fields stdout, stderr, return_code and success.
C4_NeverRaises == Executed => (~raised /\ DOMAIN ret = ResultFields)

(***************************************************************************)
(* Properties of the deployer                                              *)
(***************************************************************************)
Deployed == call.op = "deploy"
DeployedOk == Deployed /\ call.fault.step = "none"

\* the main.* files of a directory
MainFiles(dir) == {file \in DOMAIN dir : file[1] = "main"}

\* d is name, an underscore and a timestamp
HasNameForm(d, name) ==
    /\ Len(d) = Len(name) + 1 + Len(Strftime(0))
    /\ SubSeq(d, 1, Len(name)) = name
    /\ d[Len(name) + 1] = "_"

\* C5: after any sequence of deploy calls every deployment directory holds
\* exactly one main.<ext> file, the one of the declared language, also when
\* two deploys of one name in different languages fall in the same second.
\* (Stated for runs of deploys that all succeeded, with no delete.)
C5_ExactlyOneMainFile ==
    (faults = 0 /\ deleteCalls = 0) =>
        \A i \in DOMAIN deployLog :
            /\ deployLog[i].dir \in DOMAIN fs
            /\ MainFiles(fs[deployLog[i].dir]) =
                   {MainFile(DeployerGetExtension(deployLog[i].language))}

\* the step from the unprimed to the primed state is a deploy_code call that
\* returned success
DeployOkStep ==
    /\ deployCalls' = deployCalls + 1
    /\ call'.op = "deploy"
    /\ ret'.success

\* what a successful deploy leaves and returns, apart from metadata.json
DeployLeaves ==
    LET d == ret'.deployment_name
        file == MainFile(DeployerGetExtension(call'.language))
    IN  /\ d \in DOMAIN fs'
        /\ file \in DOMAIN fs'[d]
        /\ fs'[d][file] = [kind |-> "text", text |-> call'.code]
        /\ ReadmeFile \in DOMAIN fs'[d]
        /\ fs'[d][ReadmeFile].kind = "readme"
        /\ HasNameForm(d, call'.name)
        /\ PathExists(fs', ret'.deployment_path)
        /\ PathExists(fs', ret'.code_file)
        /\ ret'.code_file = <<"deploy_path", d, file>>

\* the call wrote metadata.json, with the metadata it was given
WroteMetadata ==
    LET d == ret'.deployment_name
    IN  /\ MetadataFile \in DOMAIN fs'[d]
        /\ fs'[d][MetadataFile] = [kind |-> "json",
                                   pairs |-> call'.metadata.pairs]

\* the call did not touch metadata.json
LeftMetadata ==
    LET d == ret'.deployment_name
        old == DirOf(fs, d)
    IN  /\ (MetadataFile \in DOMAIN fs'[d]) = (MetadataFile \in DOMAIN old)
        /\ MetadataFile \in DOMAIN old =>
               fs'[d][MetadataFile] = old[MetadataFile]

\* C6 as amended: a successful deploy leaves main.<ext> holding exactly the
\* given code and README.md, and writes metadata.json if and only if it was
\* given a non-empty metadata mapping; the record has success = TRUE, a
\* deployment_name of the form <name>_<timestamp> and paths that exist.
C6_SuccessfulDeploy ==
    [][DeployOkStep =>
        /\ DeployLeaves
        /\ IF call'.metadata.given /\ call'.metadata.pairs # {}
           THEN WroteMetadata ELSE LeftMetadata]_vars

\* C6 as claimed: metadata.json is written if and only if metadata was
\* supplied.
C6_AsClaimed ==
    [][DeployOkStep =>
        /\ DeployLeaves
        /\ IF call'.metadata.given
           THEN WroteMetadata ELSE LeftMetadata]_vars

C6_Witness ==
    /\ DeployedOk
    /\ call.metadata = EmptyMetadata
    /\ ret.success
    /\ MetadataFile \notin DOMAIN fs[ret.deployment_name]
    /\ ReadmeFile \in DOMAIN fs[ret.deployment_name]

\* C7: two successful deploys resolve to the same directory exactly when
\* they have the same name and fall in the same second; with the same name
\* and different seconds the directories are distinct.
C7_DistinctDirectories ==
    \A i, j \in DOMAIN deployLog :
        (deployLog[i].dir = deployLog[j].dir) <=>
            (deployLog[i].name = deployLog[j].name
                /\ deployLog[i].time = deployLog[j].time)

C7_Witness ==
    \E i, j \in DOMAIN deployLog :
        /\ deployLog[i].name = deployLog[j].name
        /\ deployLog[i].time # deployLog[j].time
        /\ deployLog[i].dir # deployLog[j].dir
        /\ {deployLog[i].dir, deployLog[j].dir} \subseteq DOMAIN fs

\* C8: from an empty root, after N successful deploys and no delete,
\* list_deployments returns exactly N records, each one's path an existing
\* directory.
C8_ListCountsDeploys ==
    (call.op = "list" /\ faults = 0 /\ deleteCalls = 0) =>
        /\ Cardinality(ret.records) = Len(deployLog)
        /\ \A r \in ret.records : PathExists(fs, r.path)

Deleted == call.op = "delete"

\* no list reports a name that was deleted and not deployed again
ListOmitsDeleted ==
    call.op = "list" => \A r \in ret.records : r.name \notin gone

\* a delete of a name with no directory returns False, raises nothing and
\* changes no deployment
DeleteOfMissingStep ==
    (deleteCalls' = deleteCalls + 1 /\ ~call'.existed) =>
        (ret'.value = FALSE /\ ~raised' /\ fs' = fs)

\* C9 as amended: delete_deployment of an existing deployment returns True
\* exactly when the removal succeeded, and then the directory is gone and no
\* later list reports the name until a deploy creates it again; when the
\* removal fails it returns False without raising.  On a name with no
\* directory it returns False, raises nothing and changes no deployment.
C9_Delete ==
    /\ [](Deleted /\ call.existed =>
            /\ ~raised
            /\ ret.value = (call.deployment_name \notin DOMAIN fs))
    /\ []ListOmitsDeleted
    /\ [][DeleteOfMissingStep]_vars

\* C9 as claimed: delete_deployment of an existing deployment returns True.
C9_AsClaimed ==
    /\ [](Deleted /\ call.existed => ret.value)
    /\ []ListOmitsDeleted
    /\ [][DeleteOfMissingStep]_vars

C9_Witness ==
    /\ call.op = "list"
    /\ gone # {}
    /\ ret.records # {}

\* the last call was a deploy that met a filesystem or VCS failure
DeployHitFailure ==
    \/ call.op = "deploy" /\ call.fault.step # "none"
    \/ call.op = "deploy_to_git"
         /\ (call.fault.step # "none" \/ call.push_rejected)

\* C10: a deploy_code or deploy_to_git call that meets a filesystem or VCS
\* failure at any step does not raise; it returns success = FALSE with the
\* attempted deployment name and the error text, and the files written
\* before the failing step are still on disk.
C10_FailureIsReturned ==
    DeployHitFailure =>
        /\ ~raised
        /\ DOMAIN ret = {"deployment_name", "error", "success"}
        /\ ret.success = FALSE
        /\ IF call.op = "deploy"
           THEN /\ ret.deployment_name =
                       call.name \o <<"_">> \o Strftime(call.time)
                /\ wrote \subseteq DOMAIN DirOf(fs, ret.deployment_name)
                /\ \A file \in wrote :
                       fs[ret.deployment_name][file].kind # "partial"
           ELSE /\ ret.deployment_name = call.name
                /\ wrote \subseteq DOMAIN git.tree
                /\ \A file \in wrote : git.tree[file].kind # "partial"

\* C11: list_deployments returns one record for every immediate subdirectory
\* of the deploy root, with an empty metadata mapping when metadata.json is
\* absent; a deployment whose metadata.json is missing or was written only
\* in part never makes another deployment missing from the list.
C11_ListToleratesPartial ==
    call.op = "list" =>
        /\ {r.name : r \in ret.records} = DOMAIN fs
        /\ \A r \in ret.records :
               MetadataFile \notin DOMAIN fs[r.name] => r.metadata = {}


(***************************************************************************)
(* Properties of the monitor                                               *)
(***************************************************************************)
Checked == call.op = "health_check"

\* the directory the last health_check looked at
CheckedDir == DirOf(fs, call.deployment_path[2])

\* the last health_check found a main.* file
FoundMain == call.existed /\ GlobMain(CheckedDir) # {}

\* the compile check of the main file the last health_check picked failed:
\* the compiler could not be run, or it rejected the text
CompileCheckFailed ==
    LET content == CheckedDir[call.main_file]
    IN  /\ Suffix(call.main_file) = "py"
        /\ \/ call.env = "run_fails"
           \/ content.kind = "text"
                /\ content.text \in {InvalidCode, FencedCode}
           \/ content.kind = "partial" /\ call.env # "cut_compiles"

IsError(record, message) ==
    /\ DOMAIN record = {"status", "message", "timestamp"}
    /\ record.status = "error"
    /\ record.message = message

IsHealth(record, status, syntax_valid) ==
    /\ "syntax_valid" \in DOMAIN record
    /\ record.status = status
    /\ record.syntax_valid = syntax_valid

\* C12 as amended: health_check returns error "Deployment not found" for a
\* path that does not exist, error "Main file not found" for a directory
\* without main.* file, error with the exception's text when reading the
\* size of the main file raises, warning with syntax_valid = FALSE when the
\* main file (the first match of main.*) is a .py file whose compile check
\* fails, and healthy with syntax_valid = TRUE in every other case.
C12_HealthCheck ==
    Checked =>
        /\ ~raised
        /\ IF ~call.existed THEN IsError(ret, "Deployment not found")
           ELSE IF ~FoundMain THEN IsError(ret, "Main file not found")
           ELSE IF call.env = "stat_fails" THEN IsError(ret, "OSError")
           ELSE IF CompileCheckFailed THEN IsHealth(ret, "warning", FALSE)
           ELSE IsHealth(ret, "healthy", TRUE)

\* C12 as claimed: the four cases, healthy in every case that is none of the
\* first three.
C12_AsClaimed ==
    Checked =>
        /\ ~raised
        /\ IF ~call.existed THEN IsError(ret, "Deployment not found")
           ELSE IF ~FoundMain THEN IsError(ret, "Main file not found")
           ELSE IF CompileCheckFailed THEN IsHealth(ret, "warning", FALSE)
           ELSE IsHealth(ret, "healthy", TRUE)

C12_Witness ==
    /\ Checked
    /\ FoundMain
    /\ call.env = "stat_fails"
    /\ Suffix(call.main_file) = "py"
    /\ CheckedDir[call.main_file] = CodeContent("code1")
    /\ ret.status = "error"

\* the step from the unprimed to the primed state is a health_check call
HealthCheckStep == checkCalls' = checkCalls + 1

\* the sequence the history holds for a name
HistoryOf(history, name) ==
    IF name \in DOMAIN history THEN history[name] ELSE << >>

\* C13: every health_check call appends the record it returns, whatever its
\* status, to the sequence kept for the base name of the checked path, so k
\* calls on one path leave k records in call order.
C13_EveryCheckAppends ==
    [][HealthCheckStep =>
        LET name == BaseName(call'.deployment_path)
        IN  HistoryOf(health_history', name) =
                Append(HistoryOf(health_history, name), ret')]_vars

\* the step from the unprimed to the primed state is an auto_fix call
AutoFixStep == call'.op = "auto_fix" /\ (call' # call \/ ret' # ret)

\* C17: auto_fix returns status "not_implemented" with the path and the
\* issue it was given, whatever they are, and leaves the health history and
\* the deployment files as they were.
C17_AutoFixIsNoOp ==
    [][AutoFixStep =>
        /\ ~raised'
        /\ ret'.status = "not_implemented"
        /\ ret'.deployment_path = call'.deployment_path
        /\ ret'.issue = call'.issue
        /\ health_history' = health_history
        /\ fs' = fs]_vars

C17_Witness ==
    /\ call.op = "auto_fix"
    /\ ret.status = "not_implemented"
    /\ health_history # NoHistory
    /\ Exists(fs, call.deployment_path)


\* the records of a name whose age at time t is at most the given hours
RecordsWithin(history, name, hours, t) ==
    LET all == HistoryOf(history, name)
        kept == {i \in DOMAIN all :
                    t - all[i].timestamp[2] <= hours * 60 * 60}
        \* the i-th smallest index kept
        Nth[i \in 1..Cardinality(kept)] ==
            CHOOSE j \in kept : Cardinality({x \in kept : x < j}) = i - 1
    IN  [i \in 1..Cardinality(kept) |-> all[Nth[i]]]

\* the step from the unprimed to the primed state is a get_health_history
\* call
GetHealthHistoryStep ==
    call'.op = "get_health_history" /\ (call' # call \/ ret' # ret)

\* C14: get_health_history(name, hours) returns exactly the records of the
\* name's sequence whose timestamp lies in the trailing window of the given
\* hours, in their original order, the empty sequence for a name that was
\* never checked, and leaves the stored history unchanged.
C14_HistoryWindow ==
    [][GetHealthHistoryStep =>
        /\ ~raised'
        /\ ret'.history = RecordsWithin(health_history,
                                        call'.deployment_name,
                                        call'.hours, now)
        /\ call'.deployment_name \notin DOMAIN health_history =>
               ret'.history = << >>
        /\ health_history' = health_history]_vars

C14_Witness ==
    /\ call.op = "get_health_history"
    /\ call.deployment_name \in DOMAIN health_history
    /\ Len(ret.history) >= 2
    /\ Len(ret.history) < Len(health_history[call.deployment_name])
    /\ ret.history[1].timestamp # ret.history[2].timestamp

\* the step from the unprimed to the primed state is a generate_report call
GenerateReportStep ==
    call'.op = "generate_report" /\ (call' # call \/ ret' # ret)

Min(a, b) == IF a <= b THEN a ELSE b

\* C15: generate_report(name) reports, over the name's records of the
\* trailing 24 hours, the total number of checks and the healthy, warning
\* and error counts, which sum to the total; it lists the last min(5, k) of
\* the k records that are not healthy, in order; with no record in the
\* window it returns the "No health history available" text, without the
\* percentages.
C15_Report ==
    [][GenerateReportStep =>
        LET window == RecordsWithin(health_history, call'.deployment_name,
                                    24, now)
            issues == {i \in DOMAIN window : window[i].status # "healthy"}
            k == Cardinality(issues)
            listed == Min(5, k)
        IN  /\ ~raised'
            /\ IF window = << >>
               THEN /\ ret'.text = "No health history available"
                    /\ DOMAIN ret' = {"text", "deployment_name"}
               ELSE /\ ret'.text = "Maintenance Report"
                    /\ ret'.total = Len(window)
                    /\ ret'.healthy = Cardinality(
                           {i \in DOMAIN window :
                               window[i].status = "healthy"})
                    /\ ret'.warnings = Cardinality(
                           {i \in DOMAIN window :
                               window[i].status = "warning"})
                    /\ ret'.errors = Cardinality(
                           {i \in DOMAIN window : window[i].status = "error"})
                    /\ ret'.healthy + ret'.warnings + ret'.errors = ret'.total
                    /\ Len(ret'.issues) = listed
                    /\ \A n \in 1..listed :
                          \E i \in issues :
                             /\ Cardinality({x \in issues : x > i})
                                    = listed - n
                             /\ ret'.issues[n].timestamp = window[i].timestamp
                             /\ ret'.issues[n].status = window[i].status]_vars

C15_Witness ==
    /\ call.op = "generate_report"
    /\ ret.text = "Maintenance Report"
    /\ ret.warnings > 5
    /\ Len(ret.issues) = 5


Analyzed == call.op = "analyze_logs"

\* the lines of a text, cut at every newline
LinesOf(content) ==
    LET cuts == {i \in DOMAIN content : content[i] = Newline}
        count == Cardinality(cuts) + 1
        \* the position of the n-th newline (0 and Len + 1 at the ends)
        Cut[n \in 0..count] ==
            IF n = 0 THEN 0
            ELSE IF n = count THEN Len(content) + 1
            ELSE CHOOSE i \in cuts : Cardinality({x \in cuts : x < i}) = n - 1
    IN  [n \in 1..count |-> SubSeq(content, Cut[n - 1] + 1, Cut[n] - 1)]

\* the line has the word in some spelling of upper and lower case
SaysError(line) ==
    \E i \in DOMAIN line : line[i] \in {"ERROR:", "error"}
SaysWarning(line) ==
    \E i \in DOMAIN line : line[i] \in {"Warning:", "warning"}

\* seq holds the last min(10, count) lines of lines that satisfy Test, in
\* file order
IsRecent(seq, lines, Test(_)) ==
    LET matching == {i \in DOMAIN lines : Test(lines[i])}
        count == Cardinality(matching)
    IN  /\ Len(seq) = Min(10, count)
        /\ \A n \in DOMAIN seq :
              \E i \in matching :
                 /\ Cardinality({x \in matching : x > i}) = Len(seq) - n
                 /\ seq[n] = lines[i]

\* C16: analyze_logs classifies every line on its own and without regard to
\* case: errors counts the lines that contain ERROR, warnings those that
\* contain WARNING, a line with both counts in both; recent_errors and
\* recent_warnings are the last min(10, count) matching lines in file order;
\* a missing log file gives status "error", and nothing is raised.
C16_AnalyzeLogs ==
    Analyzed =>
        /\ ~raised
        /\ call.env = "missing" => ret.status = "error"
        /\ call.env = "read" =>
              LET lines == LinesOf(call.content)
              IN  /\ ret.status = "success"
                  /\ ret.errors =
                        Cardinality({i \in DOMAIN lines : SaysError(lines[i])})
                  /\ ret.warnings =
                        Cardinality({i \in DOMAIN lines :
                                        SaysWarning(lines[i])})
                  /\ IsRecent(ret.recent_errors, lines, SaysError)
                  /\ IsRecent(ret.recent_warnings, lines, SaysWarning)

C16_Witness ==
    /\ Analyzed
    /\ call.env = "read"
    /\ ret.errors = 11
    /\ ret.warnings = 1
    /\ Len(ret.recent_errors) = 10
    /\ ret.recent_errors[1] = LowerErrorLine
    /\ ret.recent_errors[2] = ErrorLine


(***************************************************************************)
(* Properties of the generator                                             *)
(***************************************************************************)
\* the step from the unprimed to the primed state is a call of generate_code,
\* refine_code or generate_tests
GeneratorStep == genCalls' = genCalls + 1

\* C18: a generator built without credential has no client; each of
\* generate_code, refine_code and generate_tests then raises the error
\* "OpenAI API key not configured" and sends no request to the provider.
C18_NotConfigured ==
    [][(GeneratorStep /\ ~client) =>
        /\ raised'
        /\ ret'.exception = "ValueError"
        /\ ret'.message = "OpenAI API key not configured"
        /\ requests' = requests
        /\ requests' = 0
        /\ ~client']_vars

C18_Witness ==
    /\ ~client
    /\ genCalls = 3
    /\ call.op = "generate_tests"
    /\ raised
    /\ requests = 0

\* C19: every call of generate_code, refine_code or generate_tests on a
\* configured generator sends exactly one request; when the request fails
\* the call raises and sends no second request, and when it is answered the
\* text of the answer is returned unchanged.
C19_OneRequest ==
    [][(GeneratorStep /\ client) =>
        /\ requests' = requests + 1
        /\ call'.outcome.kind = "raises" =>
              (raised' /\ ret' = UpstreamError)
        /\ call'.outcome.kind = "answers" =>
              /\ ~raised'
              /\ IF call'.op = "generate_code"
                 THEN ret'.code = call'.outcome.content
                 ELSE ret'.text = call'.outcome.content]_vars

C19_Witness ==
    /\ client
    /\ genCalls = 2
    /\ requests = 2
    /\ call.op = "refine_code"
    /\ call.outcome.kind = "answers"
    /\ call.outcome.content = FencedCode
    /\ ret.text = FencedCode


(***************************************************************************)
(* Properties of the autonomous workflow                                   *)
(***************************************************************************)
Trace == workflow.trace

\* the positions of the trace at which a stage was called
Calls(stage) == {i \in DOMAIN Trace : Trace[i].stage = stage}

\* the place of a stage in the pipeline; refine belongs to the execute stage
Rank(stage) ==
    CASE stage = "generate" -> 1
      [] stage \in {"execute", "refine"} -> 2
      [] stage = "deploy" -> 3
      [] stage = "monitor" -> 4

\* the stages are called in pipeline order, each of generate, deploy and
\* monitor at most once, and nothing before generate
InPipelineOrder ==
    /\ \A i, j \in DOMAIN Trace :
          i < j => Rank(Trace[i].stage) <= Rank(Trace[j].stage)
    /\ \A stage \in {"generate", "deploy", "monitor"} :
          Cardinality(Calls(stage)) <= 1
    /\ Trace # << >> => Trace[1].stage = "generate"

\* refine is called at most once, right after a first execution that
\* returned a failure; once it has returned, the next stage called is the
\* one re-execution, and a run does not end before it
RefineOnce ==
    /\ Cardinality(Calls("refine")) <= 1
    /\ Cardinality(Calls("execute")) <= 2
    /\ \A i \in Calls("refine") :
          /\ i = 3
          /\ Trace[2].stage = "execute"
          /\ Trace[2].outcome = "failed"
          /\ Len(Trace) > i => Trace[i + 1].stage = "execute"
          /\ (workflow.pc = "done" /\ Trace[i].outcome = "ok") =>
                Len(Trace) > i
    /\ Cardinality(Calls("execute")) = 2 => Calls("refine") # {}

\* the last execution of a finished run has returned and is not to be
\* refined
ExecutionOver(i) ==
    /\ Trace[i].stage = "execute"
    /\ Trace[i].outcome # "raised"
    /\ \A j \in DOMAIN Trace : j > i => Trace[j].stage # "refine"

\* a run whose execution is over has called deploy, whether the execution
\* succeeded or not
DeployAnyway ==
    workflow.pc = "done" =>
        \A i \in DOMAIN Trace :
            ExecutionOver(i) =>
                (Len(Trace) > i /\ Trace[i + 1].stage = "deploy")

\* the health check is called only right after a deploy that succeeded
MonitorAfterDeploy ==
    \A i \in Calls("monitor") :
        /\ i > 1
        /\ Trace[i - 1].stage = "deploy"
        /\ Trace[i - 1].outcome = "ok"

Components == {"executor", "deployer"}

\* CodeExecutor._get_extension(language) or Deployer._get_extension(language)
GetExtension(component, language) ==
    /\ ret' = [extension |-> IF component = "executor"
                             THEN ExecutorGetExtension(language)
                             ELSE DeployerGetExtension(language)]
    /\ raised' = FALSE
    /\ call' = [op |-> "get_extension", component |-> component,
                language |-> language]
    /\ UNCHANGED <<deployVars, execVars, otherVars>>

GetExtensionCall ==
    /\ \E component \in Components, language \in Languages :
           GetExtension(component, language)
    /\ UNCHANGED runVars

NextExtension == GetExtensionCall

SpecExtension == Init /\ [][NextExtension]_vars

(***************************************************************************)
(* Properties of the extension tables                                      *)
(***************************************************************************)
\* the spellings of a language name in upper and lower case letters
Spellings ==
    [python |-> {"python", "Python", "PYTHON"},
     javascript |-> {"javascript", "JavaScript"},
     java |-> {"java", "Java"},
     go |-> {"go", "GO"},
     rust |-> {"rust", "Rust"}]

\* the table of the claim: python->py, javascript->js, java->java, go->go,
\* rust->rs, every other string->txt
TableExtension(language) ==
    CASE language \in Spellings.python -> "py"
      [] language \in Spellings.javascript -> "js"
      [] language \in Spellings.java -> "java"
      [] language \in Spellings.go -> "go"
      [] language \in Spellings.rust -> "rs"
      [] OTHER -> "txt"

AskedExtension == call.op = "get_extension"

\* C21: the extension mapping returns a value for every language string,
\* whatever the case of its letters: py for python, js for javascript, java
\* for java, go for go, rs for rust and txt for every other string; the
\* executor's table and the deployer's table return the same extension for
\* the same string.
C21_ExtensionMapping ==
    AskedExtension =>
        /\ ~raised
        /\ ret.extension = TableExtension(call.language)
        /\ ExecutorGetExtension(call.language) = ret.extension
        /\ DeployerGetExtension(call.language) = ret.extension

C21_Witness ==
    /\ AskedExtension
    /\ call.component = "deployer"
    /\ call.language = "JavaScript"
    /\ ret.extension = "js"


(***************************************************************************)
(* Health checks of deployments that are made again and deleted            *)
(***************************************************************************)
NextAfterDeploy ==
    \/ MonitorDeploy
    \/ DeleteDeploymentCall
    \/ HealthCheckCall
    \/ Tick

SpecAfterDeploy == InitDeploy /\ [][NextAfterDeploy]_vars

\* the last call was a successful deploy of Python code that compiles
DeployedValidPython ==
    /\ DeployedOk
    /\ Lower(call.language) = "python"
    /\ call.code \notin {InvalidCode, FencedCode}

\* the names successful deploy_code calls have returned
ReturnedNames == {deployLog[i].dir : i \in DOMAIN deployLog}

\* the check of the step is made on the path the deploy before it returned
ChecksReturnedPath ==
    /\ HealthCheckStep
    /\ call'.deployment_path = ret.deployment_path

\* the check of the step is made on a path a successful deploy returned and
\* no delete call has removed files of since
ChecksStandingPath ==
    /\ HealthCheckStep
    /\ call'.deployment_path[1] = "deploy_path"
    /\ call'.deployment_path[2] \in ReturnedNames \ unmade

NotFoundError(record) ==
    \/ IsError(record, "Deployment not found")
    \/ IsError(record, "Main file not found")

FoundMainPy(record, path) ==
    /\ IsHealth(record, "healthy", TRUE)
    /\ record.main_file = path \o <<MainFile("py")>>

MaxCommands == 2    \* commands in one behaviour

\* raise click.Abort() in the except clause, or the return of the function
ExitStatus(caught) == IF caught THEN 1 ELSE 0

\* the generate command without --output
CliGenerate ==
    /\ cli.commands < MaxCommands
    /\ \E language \in {"python", "go"}, outcome \in ProviderOutcomes :
          GenerateCode(Requirement, language, outcome)
    /\ cli' = Exited(cli, "generate", ExitStatus(raised'))
    /\ UNCHANGED <<deployVars, execVars, monVars, workflow, threads>>

\* the execute command
CliExecute ==
    /\ cli.commands < MaxCommands
    /\ execCalls' = execCalls + 1
    /\ \E code \in Codes :
          IF use_docker /\ docker_client
          THEN \E env \in WorkflowDockerEnvs : ExecuteInDocker(code, env)
          ELSE \E env \in WorkflowLocalEnvs : ExecuteLocally(code, env)
    /\ cli' = Exited(cli, "execute", ExitStatus(raised'))
    /\ UNCHANGED <<timeout, use_docker, docker_client, enable_sandboxing>>
    /\ UNCHANGED <<deployVars, otherVars, workflow, threads>>

\* the deploy command
CliDeploy ==
    /\ cli.commands < MaxCommands
    /\ \E request \in MonitorRequests, fault \in MonitorFaults :
           DeployCode(request.code, request.name, request.language,
                      NoMetadata, fault)
    /\ cli' = Exited(cli, "deploy", ExitStatus(raised'))
    /\ UNCHANGED <<workflow, threads>>

\* the list-deployments command
CliListDeployments ==
    /\ cli.commands < MaxCommands
    /\ ListDeployments
    /\ cli' = Exited(cli, "list-deployments", ExitStatus(raised'))
    /\ UNCHANGED <<workflow, threads>>

\* the monitor command; click.Path(exists=True) lets only a path that
\* exists reach the function
CliMonitor ==
    /\ cli.commands < MaxCommands
    /\ \E d \in DOMAIN fs, env \in HealthEnvs :
          \E main_file \in FirstMatches(fs, DirPath(d)) :
              HealthCheck(DirPath(d), main_file, env)
    /\ cli' = Exited(cli, "monitor", ExitStatus(raised'))
    /\ UNCHANGED <<workflow, threads>>

\* the auto command begins
CliAuto ==
    /\ cli.commands < MaxCommands
    /\ \E program \in {"auto", "auto_no_execute"} : WorkflowStart(program)

NextCli ==
    \/ CliGenerate
    \/ CliExecute
    \/ CliDeploy
    \/ CliListDeployments
    \/ CliMonitor
    \/ CliAuto
    \/ WorkflowGenerate
    \/ WorkflowExecute
    \/ WorkflowDeploy
    \/ WorkflowMonitor

SpecCli == InitWorkflow /\ [][NextCli]_vars

(***************************************************************************)
(* Properties of the commands                                              *)
(***************************************************************************)
\* the step from the unprimed to the primed state ends a command
CommandEnds == cli'.commands = cli.commands + 1

\* a result that says the operation failed
ReturnedFailure(result) ==
    \/ "success" \in DOMAIN result /\ ~result.success
    \/ "status" \in DOMAIN result /\ result.status = "error"

\* the operation the command adapts failed: it raised or returned a failure
\* value; for the auto command, one of the stages did
OperationFailed(command, w, result, exception) ==
    IF command = "auto"
    THEN \E i \in DOMAIN w.trace : w.trace[i].outcome # "ok"
    ELSE exception \/ ReturnedFailure(result)

\* C23: a command whose component operation failed, by raising or by
\* returning a failure value, ends with a non-zero exit status.
C23_NonZeroExitOnFailure ==
    [][(CommandEnds /\ OperationFailed(cli'.command, workflow', ret', raised'))
          => cli'.status # 0]_vars


(***************************************************************************)
(* The isolation mode of the executor                                      *)
(***************************************************************************)
\* the step from the unprimed to the primed state is an execute call
ExecuteStep == execCalls' = execCalls + 1

\* the mode the executor was built with: containers when they were asked
\* for and the runtime was reachable, local otherwise
BuiltMode == IF use_docker /\ docker_client THEN "docker" ELSE "local"

\* the container run of the last call failed
ContainerRunFailed ==
    /\ call.mode = "docker"
    /\ call.env.kind \in {"container_error", "other_error"}

\* C24: no execute call changes the isolation mode; every call runs in the
\* mode the executor was built with, locally for an executor whose runtime
\* was unreachable at construction and in a container otherwise, and a
\* container run that fails is not run again locally: the failure is returned
\* with return_code = -1 or the container's exit status.
C24_IsolationModeFixed ==
    [][ExecuteStep =>
        /\ use_docker' = use_docker
        /\ docker_client' = docker_client
        /\ call'.mode = BuiltMode
        /\ ContainerRunFailed' =>
              /\ ~raised'
              /\ ret'.return_code \in {-1} \cup ContainerExitCodes]_vars


(***************************************************************************)
(* health_check called from two threads.  The inspection of the deployment *)
(* (lines 38-74) touches nothing the threads share and is one step; the    *)
(* test of line 78, the assignment of line 79 and the append of line 80    *)
(* are one step each, and the other thread can run between them.           *)
(***************************************************************************)
MaxRaceChecks == 3  \* health_check calls begun in one behaviour

\* every name is taken for new
AlwaysAbsent(history, name) == TRUE

\* deployment_name not in self.health_history
Absent(history, name) == name \notin DOMAIN history

\* self.health_history[deployment_name] = []
Created(history, name) ==
    [n \in DOMAIN history \cup {name} |->
        IF n = name THEN << >> ELSE history[n]]

ReturnedOf(returned, name) ==
    IF name \in DOMAIN returned THEN returned[name] ELSE 0

\* lines 38-74: the thread inspects the deployment and builds health_status
CheckBegin(t, deployment_path, env) ==
    LET main_file == MainFile("py")
        content == fs[deployment_path[2]][main_file]
        syntax_ok == CheckPythonSyntax(content, env)
    IN  /\ threads.at[t].pc = "idle"
        /\ threads.begun < MaxRaceChecks
        /\ Exists(fs, deployment_path)
        /\ main_file \in FirstMatches(fs, deployment_path)
        /\ threads' =
              [threads EXCEPT
                  !.at[t] = [pc |-> "test",
                             name |-> BaseName(deployment_path),
                             health_status |->
                                 HealthStatus(deployment_path, main_file,
                                              content, syntax_ok, now)],
                  !.begun = @ + 1,
                  !.overlapped =
                      @ \/ \E u \in Threads \ {t} : threads.at[u].pc # "idle"]
        /\ UNCHANGED <<monVars, genVars, call, ret, raised>>

\* line 78: if deployment_name not in self.health_history
CheckTest(t) ==
    /\ threads.at[t].pc = "test"
    /\ threads' =
          [threads EXCEPT
              !.at[t].pc = IF Absent(health_history, threads.at[t].name)
                           THEN "create" ELSE "append"]
    /\ UNCHANGED <<monVars, genVars, call, ret, raised>>

\* line 79: self.health_history[deployment_name] = []
CheckCreate(t) ==
    /\ threads.at[t].pc = "create"
    /\ health_history' = Created(health_history, threads.at[t].name)
    /\ threads' = [threads EXCEPT !.at[t].pc = "append"]
    /\ UNCHANGED <<checkCalls, logCalls, genVars, call, ret, raised>>

\* lines 80-82: the append, and the return of health_status
CheckAppend(t) ==
    LET name == threads.at[t].name
        health_status == threads.at[t].health_status
    IN  /\ threads.at[t].pc = "append"
        /\ health_history' = Appended(health_history, name, health_status)
        /\ checkCalls' = checkCalls + 1
        /\ ret' = health_status
        /\ raised' = FALSE
        /\ call' = [op |-> "health_check",
                    deployment_path |-> health_status.deployment_path,
                    main_file |-> MainFile("py"), env |-> "plain",
                    existed |-> TRUE]
        /\ threads' =
              [threads EXCEPT
                  !.at[t] = Idle,
                  !.returned =
                      [n \in DOMAIN @ \cup {name} |->
                          ReturnedOf(@, n) + (IF n = name THEN 1 ELSE 0)]]
        /\ UNCHANGED <<logCalls, genVars>>

CheckBeginCall ==
    /\ \E t \in Threads, d \in DOMAIN fs, env \in {"plain", "run_fails"} :
          CheckBegin(t, DirPath(d), env)
    /\ UNCHANGED <<deployVars, execVars, workflow, cli>>

CheckTestCall ==
    /\ \E t \in Threads : CheckTest(t)
    /\ UNCHANGED <<deployVars, execVars, workflow, cli>>

CheckCreateCall ==
    /\ \E t \in Threads : CheckCreate(t)
    /\ UNCHANGED <<deployVars, execVars, workflow, cli>>

CheckAppendCall ==
    /\ \E t \in Threads : CheckAppend(t)
    /\ UNCHANGED <<deployVars, execVars, workflow, cli>>

NextRace ==
    \/ HistoryDeploy
    \/ CheckBeginCall
    \/ CheckTestCall
    \/ CheckCreateCall
    \/ CheckAppendCall

SpecRace == InitDeploy /\ [][NextRace]_vars


(***************************************************************************)
(* Properties of health_check called from two threads                      *)
(***************************************************************************)
\* the records the history holds for a name the threads have checked
Held(name) == Len(HistoryOf(health_history, name))

AllIdle == \A t \in Threads : threads.at[t].pc = "idle"

\* C25: the history map is not guarded against concurrent calls.  The
\* history never holds more records for a name than health_check calls have
\* returned for it, and it holds as many when no two calls have overlapped;
\* when two calls for a name that has no sequence yet interleave between the
\* test, the creation of the empty sequence and the append, a state is
\* reached (C25_Witness) where it holds fewer.
C25_HistoryRace ==
    \A name \in DOMAIN threads.returned :
        /\ Held(name) <= threads.returned[name]
        /\ (AllIdle /\ ~threads.overlapped) =>
               Held(name) = threads.returned[name]

C25_Witness ==
    /\ AllIdle
    /\ threads.overlapped
    /\ \E name \in DOMAIN threads.returned :
          /\ threads.returned[name] = 2
          /\ Held(name) = 1


(***************************************************************************)
(* The monitor on two directories of one name, and all its operations      *)
(***************************************************************************)
\* the paths checked: the deployments, the directories of the second tree
\* and a path that does not exist
SharedPaths ==
    {DirPath(d) : d \in DOMAIN fs}
    \cup {ArchivePath(d) : d \in DOMAIN ArchiveRoot}
    \cup {NonexistentPath}

SharedHealthCheck ==
    /\ checkCalls < MaxChecks
    /\ \E deployment_path \in SharedPaths, env \in {"plain", "stat_fails"} :
          \E main_file \in FirstMatches(fs, deployment_path) :
              HealthCheck(deployment_path, main_file, env)
    /\ UNCHANGED runVars

NextShared ==
    \/ HistoryDeploy
    \/ SharedHealthCheck
    \/ GetHealthHistoryCall
    \/ GenerateReportCall
    \/ AutoFixCall
    \/ AnalyzeLogsCall

SpecShared == InitDeploy /\ [][NextShared]_vars


(***************************************************************************)
(* Properties of the history of two directories of one name                *)
(***************************************************************************)
\* the final component of a path
LastComponent(path) == path[Len(path)]

\* the step is a health_check call that returned a health record
HealthRecordStep == HealthCheckStep /\ ret'.status # "error"

\* C26: the history is keyed by the final component of the checked path: a
\* health record is appended to the sequence of that component whatever the
\* directories above it are, so get_health_history and generate_report for
\* the name return the records of every path that ends with it, in call
\* order.
C26_SharedByBaseName ==
    [][/\ HealthRecordStep =>
             LET name == LastComponent(call'.deployment_path)
             IN  /\ ret'.deployment_path = call'.deployment_path
                 /\ HistoryOf(health_history', name) =
                        Append(HistoryOf(health_history, name), ret')
       /\ GetHealthHistoryStep =>
             ret'.history =
                 HistoryOf(health_history, call'.deployment_name)
       /\ (/\ GenerateReportStep
           /\ HistoryOf(health_history, call'.deployment_name) # << >>) =>
             ret'.total =
                 Len(HistoryOf(health_history, call'.deployment_name))]_vars

C26_Witness ==
    /\ call.op = "get_health_history"
    /\ call.deployment_name \in DOMAIN fs
    /\ Len(ret.history) = 3
    /\ ret.history[1].deployment_path = ArchivePath(call.deployment_name)
    /\ ret.history[2].deployment_path = DirPath(call.deployment_name)
    /\ ret.history[3].deployment_path = ArchivePath(call.deployment_name)
    /\ ret.history[1].status = "warning"
    /\ ret.history[2].status = "healthy"


(***************************************************************************)
(* delete_deployment with any name                                         *)
(***************************************************************************)
\* the names of the deployments, the empty name and a name of no directory
AnyNames == DOMAIN fs \cup {RootName, Nonexistent}

DeleteAnyName ==
    /\ \E deployment_name \in AnyNames, rmtree_fails \in BOOLEAN :
           \E left \in SUBSET (IF deployment_name = RootName THEN DOMAIN fs
                               ELSE DOMAIN DirOf(fs, deployment_name)) :
               DeleteDeployment(deployment_name, rmtree_fails, left)
    /\ UNCHANGED runVars

NextDelete ==
    \/ DeployCodeCall
    \/ DeleteAnyName
    \/ ListDeploymentsCall
    \/ Tick

SpecDelete == InitDeploy /\ [][NextDelete]_vars

\* the step from the unprimed to the primed state is a delete_deployment
\* call
DeleteStep == deleteCalls' = deleteCalls + 1

\* C27: delete_deployment(name), for every name, removes at most the
\* directory deploy_path/name: every other deployment directory is there
\* afterwards with its files, and so is deploy_path itself.
C27_DeleteRemovesOnlyNamed ==
    [][DeleteStep =>
        /\ \A d \in DOMAIN fs \ {call'.deployment_name} :
              d \in DOMAIN fs' /\ fs'[d] = fs[d]
        /\ RootName \in gone' <=> RootName \in gone]_vars


\* seq is the beginning of longer
IsPrefix(seq, longer) ==
    /\ Len(seq) <= Len(longer)
    /\ \A i \in DOMAIN seq : longer[i] = seq[i]

\* C28: the history is append-only.  Over health_check, get_health_history,
\* generate_report, analyze_logs and auto_fix calls every stored sequence
\* stays the beginning of what is stored later; a step that changes the
\* history is a health_check call, and it appends the record it returns to
\* the sequence of the last component of the checked path and leaves every
\* other sequence as it was.
C28_AppendOnly ==
    [][/\ \A name \in DOMAIN health_history :
             /\ name \in DOMAIN health_history'
             /\ IsPrefix(health_history[name], health_history'[name])
       /\ health_history' # health_history =>
             LET name == LastComponent(call'.deployment_path)
             IN  /\ HealthCheckStep
                 /\ HistoryOf(health_history', name) =
                        Append(HistoryOf(health_history, name), ret')
                 /\ \A n \in DOMAIN health_history' \ {name} :
                        /\ n \in DOMAIN health_history
                        /\ health_history'[n] = health_history[n]]_vars

C28_Witness ==
    /\ call.op \in {"analyze_logs", "auto_fix", "generate_report"}
    /\ Cardinality(DOMAIN health_history) = 2
    /\ \E name \in DOMAIN health_history :
          /\ Len(health_history[name]) = 2
          /\ health_history[name][1].status = "warning"
          /\ health_history[name][2].status = "healthy"


\* C29: metadata round-trips through deploy and list.  A list_deployments
\* call made right after a successful deploy_code call reports, for the
\* deployment name that call returned, the entries of the metadata the call
\* was given, and no entries when it was given None or {}, also when the
\* directory existed before the call.
C29_MetadataRoundTrip ==
    [][(DeployedOk /\ call'.op = "list") =>
          \E record \in ret'.records :
              /\ record.name = ret.deployment_name
              /\ record.metadata = call.metadata.pairs]_vars


\* the position of the last execute call of the run
LastExecute ==
    CHOOSE i \in Calls("execute") : \A j \in Calls("execute") : j <= i

\* the position of the call the code under deployment came from: the
\* refinement when there was one, otherwise the generation
CodeOrigin ==
    IF Calls("refine") # {} THEN CHOOSE i \in Calls("refine") : TRUE
    ELSE CHOOSE i \in Calls("generate") : TRUE

\* the values the metadata handed to deploy_code has under a key
MetadataValues(key) ==
    {pair[2] : pair \in {p \in call.metadata.pairs : p[1] = key}}

\* C30: in a run of the workflow that has executed the code, the code handed
\* to deploy_code is the code of the last execute call, which is the refined
\* code when a refinement happened and the generated code otherwise; in the
\* example the value of execution_tested in the metadata is the success of
\* that last execution.
C30_DeployGetsLastExecuted ==
    (call.op = "deploy" /\ Calls("execute") # {}) =>
        /\ call.code = Trace[LastExecute].code
        /\ call.code = Trace[CodeOrigin].code
        /\ workflow.program = "example" =>
              MetadataValues("execution_tested") =
                  {IF Trace[LastExecute].outcome = "ok"
                   THEN "True" ELSE "False"}

C30_Witness ==
    /\ call.op = "deploy"
    /\ workflow.program = "example"
    /\ Calls("refine") = {3}
    /\ Trace[3].code # Trace[1].code
    /\ call.code = Trace[3].code
    /\ Trace[2].outcome = "failed"
    /\ Trace[4].outcome = "failed"
    /\ MetadataValues("execution_tested") = {"False"}

====
